---- MODULE Spec2Model ----
(***************************************************************************)
(* Verification model of the Ontario business-registry lookup tools:       *)
(*   - the retrieval session  PlaywrightScraper.search_business_optimized  *)
(*     and its result wait    PlaywrightScraper._smart_wait_for_results    *)
(*   - the batch orchestrator ConcurrentBusinessProcessor                  *)
(*   - the owner pipeline     process_owners_concurrent                    *)
(*   - the name matcher       business_lookup.is_company_match             *)
(*                                                                         *)
(* Time is counted in tenths of a second.  Every awaited browser call      *)
(* costs the page's latency; asyncio.sleep costs its nominal duration.     *)
(***************************************************************************)
EXTENDS Integers, Sequences, FiniteSets, TLC

(***************************************************************************)
(* Bounds of the model.                                                    *)
(***************************************************************************)
MaxQueries == 3
MaxBatch == 2
MaxConcurrent == 2
MaxLatency == 1
MaxFragments == 3
MaxOwners == 6
MaxRows == 2

(***************************************************************************)
(* Program constants (tenths of a second).                                 *)
(***************************************************************************)
MAX_WAIT == 60
MIN_WAIT == 20
POLL_SLEEP == 3
COOKIE_SLEEP == 3

Max(a, b) == IF a > b THEN a ELSE b
Min(a, b) == IF a < b THEN a ELSE b

(***************************************************************************)
(* SearchResult dataclass.  error_message, search_time and response_size   *)
(* default to "", 0.0 and 0.                                               *)
(***************************************************************************)
SearchResult(business_name, html_content, success, error_message, search_time, response_size) ==
    [business_name |-> business_name, html_content |-> html_content,
     success |-> success, error_message |-> error_message,
     search_time |-> search_time, response_size |-> response_size]

NoResult == [business_name |-> "", html_content |-> "", success |-> FALSE,
             error_message |-> "<none>", search_time |-> 0, response_size |-> 0]

(***************************************************************************)
(* The page a session drives, as the script of its answers.                *)
(*   goto, cookie, input, fill, load : "ok" or "err"                       *)
(*   buttons : for each candidate selector, what count()/click() do        *)
(*   wait    : what the result polls observe                               *)
(*   content : the rendered document, or "err" when reading it raises      *)
(*   lat     : duration of one awaited browser call                        *)
(***************************************************************************)
search_button_selectors ==
    << "button[type='submit']", "input[type='submit']", "button:has-text('Search')",
       "button:has-text('SEARCH')", "input[value='Search']", "input[value='SEARCH']",
       "#nodeW20" >>

Selectors == 1..Len(search_button_selectors)

ButtonBehaviours == {"absent", "count_err", "click_ok", "click_err"}

Docs == {"<html>hit</html>", "<html>No results found</html>"}

\* Observation of one poll of the result wait.
\*   found_at  : first poll at which a results container is present (0: never)
\*   none_at   : first poll at which a "no results" text is present (0: never)
\*   loading_until : polls before this one show a loading indicator
\*   raises    : every page query of the wait raises
WaitScripts ==
    [found_at : {0, 1, 3}, none_at : {0, 2}, loading_until : {0, 9, 99}, raises : BOOLEAN]

Observe(w, n) ==
    IF w.raises THEN "error"
    ELSE IF w.found_at # 0 /\ n >= w.found_at THEN "results"
    ELSE IF w.none_at # 0 /\ n >= w.none_at THEN "no_results"
    ELSE IF n < w.loading_until THEN "loading"
    ELSE "quiet"

(***************************************************************************)
(* PlaywrightScraper._smart_wait_for_results: the polling loop, as the     *)
(* elapsed time and number of polls at which it returns.  el is            *)
(* time.time() - start_time at the loop test, n the number of the poll.    *)
(***************************************************************************)
RECURSIVE SmartWaitLoop(_, _, _, _)
SmartWaitLoop(w, lat, n, el) ==
    IF ~(el < MAX_WAIT) THEN [t |-> el, polls |-> n - 1, why |-> "max_wait"]
    ELSE LET o == Observe(w, n) IN
         IF o = "error"
         THEN \* except Exception: minimum wait, else sleep and retry
              IF el + lat > MIN_WAIT
              THEN [t |-> el + lat, polls |-> n, why |-> "error"]
              ELSE SmartWaitLoop(w, lat, n + 1, el + lat + POLL_SLEEP)
         ELSE IF o = "results"
         THEN [t |-> el + lat, polls |-> n, why |-> "results"]
         ELSE IF o = "no_results"
         THEN [t |-> el + 2 * lat, polls |-> n, why |-> "no_results"]
         ELSE IF el + 2 * lat > MIN_WAIT
         THEN IF o # "loading"
              THEN [t |-> el + 3 * lat, polls |-> n, why |-> "quiet"]
              ELSE SmartWaitLoop(w, lat, n + 1, el + 3 * lat + POLL_SLEEP)
         ELSE SmartWaitLoop(w, lat, n + 1, el + 2 * lat + POLL_SLEEP)

\* Mutant: a wait that ends without a results container or a "no results"
\* text raises instead of returning.
smart_wait_raises_on_timeout(w, lat) == IF SmartWaitLoop(w, lat, 1, 0).why \in {"results", "no_results"} THEN SmartWaitLoop(w, lat, 1, 0) ELSE [SmartWaitLoop(w, lat, 1, 0) EXCEPT !.why = "raised"]

_smart_wait_for_results(w, lat) == SmartWaitLoop(w, lat, 1, 0)

(***************************************************************************)
(* What a call does: it returns a value, or an exception leaves it.        *)
(***************************************************************************)
Returned(v) == [raised |-> FALSE, value |-> v, error |-> ""]
Raised(e) == [raised |-> TRUE, value |-> NoResult, error |-> e]

(***************************************************************************)
(* The submit loop of search_business_optimized: the candidate selectors   *)
(* from index j on, tried in order, at elapsed time t.                     *)
(***************************************************************************)
RECURSIVE ClickSearchButton(_, _, _)
ClickSearchButton(page, j, t) ==
    IF j > Len(search_button_selectors)
    THEN [search_clicked |-> FALSE, selector |-> 0, t |-> t]
    ELSE LET b == page.buttons[j] IN
         IF b = "count_err" \/ b = "absent"
         THEN ClickSearchButton(page, j + 1, t + page.lat)
         ELSE IF b = "click_ok"
         THEN [search_clicked |-> TRUE, selector |-> j, t |-> t + 2 * page.lat]
         ELSE ClickSearchButton(page, j + 1, t + 2 * page.lat)

\* Mutant: the session goes on whether or not a candidate was clicked.
SearchClickedAssumed(click) == TRUE

\* if not search_clicked: raise Exception(...)
SearchClicked(click) == click.search_clicked

\* The try block of search_business_optimized: the exception that leaves it
\* (error, at elapsed time t, after the steps of log) or the document read.
SearchTry(business_name, page) ==
    LET lat == page.lat
        t_goto == lat
        t_cookie == t_goto + (IF page.cookie = "ok" THEN lat + COOKIE_SLEEP ELSE lat)
        t_input == t_cookie + lat
        t_fill == t_input + lat
        click == ClickSearchButton(page, 1, t_fill)
        t_load == click.t + lat
        wait == _smart_wait_for_results(page.wait, lat)
        t_content == t_load + wait.t + lat
        exc(e, t, log) == [raised |-> TRUE, error |-> e, t |-> t, html |-> "", log |-> log]
    IN  IF page.goto = "err" THEN exc("Timeout: page.goto", t_goto, << >>)
        ELSE IF page.input = "err"
        THEN exc("Timeout: waiting for #QueryString", t_input, <<"goto">>)
        ELSE IF page.fill = "err"
        THEN exc("Error: page.fill", t_fill, <<"goto", "input">>)
        ELSE IF ~SearchClicked(click)
        THEN exc("Could not find or click the search button", click.t,
                 <<"goto", "input", "fill">>)
        ELSE IF page.load = "err"
        THEN exc("Timeout: wait_for_load_state", t_load,
                 <<"goto", "input", "fill", "click">>)
        ELSE IF wait.why = "raised"
        THEN exc("Error: _smart_wait_for_results", t_load + wait.t,
                 <<"goto", "input", "fill", "click", "load">>)
        ELSE IF page.content = "err"
        THEN exc("Error: page.content", t_content,
                 <<"goto", "input", "fill", "click", "load", "wait">>)
        ELSE [raised |-> FALSE, error |-> "", t |-> t_content, html |-> page.content,
              log |-> <<"goto", "input", "fill", "click", "load", "wait", "content">>]

\* Mutant: the handler lets the exception go on to the caller.
SearchExceptReraises(business_name, e, search_time) == Raised(e)

\* except Exception as e: of search_business_optimized.
SearchExcept(business_name, e, search_time) ==
    Returned(SearchResult(business_name, "", FALSE, e, search_time, 0))

\* Mutant: the success outcome leaves response_size at its default.
search_without_response_size(business_name, page) == IF SearchTry(business_name, page).raised THEN SearchExcept(business_name, SearchTry(business_name, page).error, SearchTry(business_name, page).t) ELSE Returned(SearchResult(business_name, SearchTry(business_name, page).html, TRUE, "", SearchTry(business_name, page).t, 0))

search_business_optimized(business_name, page) ==
    LET r == SearchTry(business_name, page) IN
    IF r.raised THEN SearchExcept(business_name, r.error, r.t)
    ELSE Returned(SearchResult(business_name, r.html, TRUE, "", r.t, Len(r.html)))

(***************************************************************************)
(* Python strings are sequences of characters; a character is a one-letter *)
(* string ("e_acute" stands for the accented e of the French suffixes).    *)
(* Line breaks do not occur in names.                                      *)
(***************************************************************************)
LowerLetters ==
    << "a", "b", "c", "d", "e", "f", "g", "h", "i", "j", "k", "l", "m",
       "n", "o", "p", "q", "r", "s", "t", "u", "v", "w", "x", "y", "z" >>
UpperLetters ==
    << "A", "B", "C", "D", "E", "F", "G", "H", "I", "J", "K", "L", "M",
       "N", "O", "P", "Q", "R", "S", "T", "U", "V", "W", "X", "Y", "Z" >>
Range(f) == {f[k] : k \in DOMAIN f}
DigitChars == {"0", "1", "2", "3", "4", "5", "6", "7", "8", "9"}
Whitespace == {" ", "\t"}

IsLowerAscii(c) == c \in Range(LowerLetters)
IsUpperAscii(c) == c \in Range(UpperLetters)
\* str.isalpha() of one character.
IsAlpha(c) == IsLowerAscii(c) \/ IsUpperAscii(c) \/ c = "e_acute"
\* \w of the re module.
IsWordChar(c) == IsAlpha(c) \/ c \in DigitChars \/ c = "_"

\* str.lower()
ToLower(c) ==
    IF IsUpperAscii(c)
    THEN LowerLetters[CHOOSE k \in DOMAIN UpperLetters : UpperLetters[k] = c]
    ELSE c
Lower(s) == [k \in 1..Len(s) |-> ToLower(s[k])]

\* str.strip(chars)
RECURSIVE LStrip(_, _)
LStrip(s, chars) ==
    IF s # << >> /\ Head(s) \in chars THEN LStrip(Tail(s), chars) ELSE s
RECURSIVE RStrip(_, _)
RStrip(s, chars) ==
    IF s # << >> /\ s[Len(s)] \in chars THEN RStrip(SubSeq(s, 1, Len(s) - 1), chars) ELSE s
Strip(s, chars) == RStrip(LStrip(s, chars), chars)

\* s[p:].startswith(pat), positions counted from 1.
StartsWithAt(s, p, pat) ==
    /\ p + Len(pat) - 1 <= Len(s)
    /\ \A k \in 1..Len(pat) : s[p + k - 1] = pat[k]

\* \b holds in front of position p of s.
WordBoundary(s, p) ==
    LET before == p > 1 /\ p - 1 <= Len(s) /\ IsWordChar(s[p - 1])
        after == p >= 1 /\ p <= Len(s) /\ IsWordChar(s[p])
    IN  before # after

\* pat in s
Contains(s, pat) == \E p \in 1..(Len(s) + 1) : StartsWithAt(s, p, pat)

\* str.replace(old, new), old not empty.
RECURSIVE ReplaceFrom(_, _, _, _)
ReplaceFrom(s, p, old, new) ==
    IF p > Len(s) THEN << >>
    ELSE IF StartsWithAt(s, p, old) THEN new \o ReplaceFrom(s, p + Len(old), old, new)
    ELSE << s[p] >> \o ReplaceFrom(s, p + 1, old, new)
Replace(s, old, new) == ReplaceFrom(s, 1, old, new)

\* First position from p on whose character is not in chars (Len(s) + 1: none).
RECURSIVE SkipWhile(_, _, _)
SkipWhile(s, p, chars) ==
    IF p <= Len(s) /\ s[p] \in chars THEN SkipWhile(s, p + 1, chars) ELSE p

\* First position from p on whose character is in chars (0: none).
RECURSIVE FindFirst(_, _, _)
FindFirst(s, p, chars) ==
    IF p > Len(s) THEN 0
    ELSE IF s[p] \in chars THEN p
    ELSE FindFirst(s, p + 1, chars)

\* str.split(): the maximal runs of non-whitespace.
RECURSIVE SplitFrom(_, _)
SplitFrom(s, p) ==
    LET a == SkipWhile(s, p, Whitespace) IN
    IF a > Len(s) THEN << >>
    ELSE LET b == FindFirst(s, a, Whitespace)
             e == IF b = 0 THEN Len(s) + 1 ELSE b
         IN  << SubSeq(s, a, e - 1) >> \o SplitFrom(s, e)
Split(s) == SplitFrom(s, 1)

\* sep.join(words)
RECURSIVE Join(_, _)
Join(words, sep) ==
    IF words = << >> THEN << >>
    ELSE IF Len(words) = 1 THEN words[1]
    ELSE words[1] \o sep \o Join(Tail(words), sep)

RECURSIVE Reversed(_)
Reversed(s) == IF s = << >> THEN << >> ELSE Reversed(Tail(s)) \o << Head(s) >>

\* [x for x in s if Keep(x)] for the filters used below.
RECURSIVE LongWords(_)
LongWords(ws) ==
    IF ws = << >> THEN << >>
    ELSE (IF Len(Head(ws)) > 1 THEN << Head(ws) >> ELSE << >>) \o LongWords(Tail(ws))

(***************************************************************************)
(* business_lookup.is_company_match: normalize_company_name.               *)
(***************************************************************************)
entity_suffixes ==
    << << "i", "n", "c" >>,
       << "l", "l", "c" >>,
       << "l", "t", "d" >>,
       << "l", "l", "p" >>,
       << "c", "o", "r", "p" >>,
       << "c", "o", "r", "p", "o", "r", "a", "t", "i", "o", "n" >>,
       << "l", "i", "m", "i", "t", "e", "d" >>,
       << "i", "n", "c", "o", "r", "p", "o", "r", "a", "t", "e", "d" >>,
       << "l", "l", "c", "." >>,
       << "l", "t", "d", "." >>,
       << "i", "n", "c", "." >>,
       << "c", "o", "r", "p", "." >>,
       << "l", "i", "m", "i", "t", "e", "d", "." >>,
       << "i", "n", "c", "o", "r", "p", "o", "r", "a", "t", "e", "d", "." >>,
       << "g", "m", "b", "h" >>,
       << "a", "g" >>,
       << "s", "a", "r", "l" >>,
       << "s", "r", "l" >>,
       << "p", "t", "e" >>,
       << "l", "t", "e", "e" >>,
       << "b", "v" >>,
       << "n", "v" >>,
       << "o", "y", "j" >>,
       << "a", "b" >>,
       << "a", "s" >>,
       << "c", "o", "m", "p", "a", "n", "y" >>,
       << "c", "o" >>,
       << "l", "p" >>,
       << "p", "l", "c" >>,
       << "l", "l", "p" >>,
       << "l", "l", "l", "p" >>,
       << "l", "c" >>,
       << "p", " ", "c" >>,
       << "p", "c" >>,
       << "p", "a" >>,
       << "p", "r", "o", "f", "e", "s", "s", "i", "o", "n", "a", "l", " ", "c", "o", "r", "p", "o", "r", "a", "t", "i", "o", "n" >>,
       << "p", "r", "o", "f", "e", "s", "s", "i", "o", "n", "a", "l", " ", "a", "s", "s", "o", "c", "i", "a", "t", "i", "o", "n" >>,
       << "s", "o", "c", "i", "e", "t", "e" >>,
       << "s", "o", "c", "i", "e_acute", "t", "e_acute" >>,
       << "s", "o", "c", "i", "e", "t", "e", " ", "e", "n", " ", "n", "o", "m", " ", "c", "o", "l", "l", "e", "c", "t", "i", "f" >>,
       << "s", "o", "c", "i", "e_acute", "t", "e_acute", " ", "e", "n", " ", "n", "o", "m", " ", "c", "o", "l", "l", "e", "c", "t", "i", "f" >>,
       << "s", "o", "c", "i", "e", "t", "e", " ", "e", "n", " ", "c", "o", "m", "m", "a", "n", "d", "i", "t", "e" >>,
       << "s", "o", "c", "i", "e_acute", "t", "e_acute", " ", "e", "n", " ", "c", "o", "m", "m", "a", "n", "d", "i", "t", "e" >>,
       << "s", "o", "c", "i", "e", "t", "e", " ", "a", "n", "o", "n", "y", "m", "e" >>,
       << "s", "o", "c", "i", "e_acute", "t", "e_acute", " ", "a", "n", "o", "n", "y", "m", "e" >> >>

replacements ==
    << << << "&" >>, << "a", "n", "d" >> >>,
       << << "+" >>, << "a", "n", "d" >> >>,
       << << "@" >>, << "a", "t" >> >>,
       << << "w", "/" >>, << "w", "i", "t", "h" >> >>,
       << << "w", " ", "/" >>, << "w", "i", "t", "h" >> >>,
       << << "w", ".", "o", "." >>, << "w", "i", "t", "h", "o", "u", "t" >> >>,
       << << "v", "s", "." >>, << "v", "e", "r", "s", "u", "s" >> >>,
       << << "'", "s" >>, << >> >>,
       << << "'" >>, << >> >>,
       << << "\"" >>, << >> >>,
       << << "," >>, << " " >> >>,
       << << "." >>, << " " >> >>,
       << << ";" >>, << " " >> >>,
       << << ":" >>, << " " >> >>,
       << << " ", " " >>, << " " >> >> >>

\* re.sub(r'\s*[\(\[].*?[\]\)]', ' ', name): length of the match at p, 0 if none.
BracketMatch(s, p) ==
    LET q == SkipWhile(s, p, Whitespace)
        r == IF q <= Len(s) /\ s[q] \in {"(", "["} THEN FindFirst(s, q + 1, {")", "]"}) ELSE 0
    IN  IF r = 0 THEN 0 ELSE r - p + 1
RECURSIVE RemoveBrackets(_, _)
RemoveBrackets(s, p) ==
    IF p > Len(s) THEN << >>
    ELSE LET m == BracketMatch(s, p) IN
         IF m > 0 THEN << " " >> \o RemoveBrackets(s, p + m)
         ELSE << s[p] >> \o RemoveBrackets(s, p + 1)

\* The alternation of suffix_pattern at p: the first suffix, in list order,
\* that is found at p between two word boundaries; its length, 0 if none.
SuffixMatch(s, p) ==
    LET found == {k \in DOMAIN entity_suffixes :
                    /\ StartsWithAt(s, p, entity_suffixes[k])
                    /\ WordBoundary(s, p + Len(entity_suffixes[k]))}
    IN  IF found = {} THEN 0
        ELSE Len(entity_suffixes[CHOOSE k \in found : \A j \in found : k <= j])
\* re.sub(suffix_pattern, '', name)
RECURSIVE RemoveSuffixes(_, _)
RemoveSuffixes(s, p) ==
    IF p > Len(s) THEN << >>
    ELSE LET m == IF WordBoundary(s, p) THEN SuffixMatch(s, p) ELSE 0 IN
         IF m > 0 THEN RemoveSuffixes(s, p + m)
         ELSE << s[p] >> \o RemoveSuffixes(s, p + 1)

\* \b(co[\s-]?op(?:erative)?|coop(?:erative)?)\b at p: length of the match,
\* 0 if none.  The second alternative is the first one without separator.
CoopMatch(s, p) ==
    LET co == << "c", "o" >>
        op == << "o", "p" >>
        erative == << "e", "r", "a", "t", "i", "v", "e" >>
        sep == IF p + 2 <= Len(s) /\ s[p + 2] \in (Whitespace \cup {"-"}) THEN 1 ELSE 0
        q == p + 2 + sep
    IN  IF ~(WordBoundary(s, p) /\ StartsWithAt(s, p, co) /\ StartsWithAt(s, q, op)) THEN 0
        ELSE IF StartsWithAt(s, q + 2, erative) /\ WordBoundary(s, q + 9) THEN q + 9 - p
        ELSE IF WordBoundary(s, q + 2) THEN q + 2 - p
        ELSE 0
\* re.sub(..., 'co-op', name)
RECURSIVE FoldCoop(_, _)
FoldCoop(s, p) ==
    IF p > Len(s) THEN << >>
    ELSE LET m == CoopMatch(s, p) IN
         IF m > 0 THEN << "c", "o", "-", "o", "p" >> \o FoldCoop(s, p + m)
         ELSE << s[p] >> \o FoldCoop(s, p + 1)

\* for old, new in replacements.items(): name = name.replace(old, new)
RECURSIVE ApplyReplacements(_, _)
ApplyReplacements(s, k) ==
    IF k > Len(replacements) THEN s
    ELSE CHOOSE name \in
            {ApplyReplacements(replaced, k + 1) :
                replaced \in {Replace(s, replacements[k][1], replacements[k][2])}} : TRUE

\* re.sub(r'[^a-z0-9\s-]', ' ', name)
BlankSpecials(s) ==
    [k \in 1..Len(s) |->
        IF IsLowerAscii(s[k]) \/ s[k] \in DigitChars \/ s[k] \in Whitespace \/ s[k] = "-"
        THEN s[k] ELSE " "]

\* re.sub(r'\s+-\s+', '-', name)
SpacedHyphenMatch(s, p) ==
    LET q == SkipWhile(s, p, Whitespace)
        r == SkipWhile(s, q + 1, Whitespace)
    IN  IF q > p /\ q <= Len(s) /\ s[q] = "-" /\ r > q + 1 THEN r - p ELSE 0
RECURSIVE TightenHyphens(_, _)
TightenHyphens(s, p) ==
    IF p > Len(s) THEN << >>
    ELSE LET m == SpacedHyphenMatch(s, p) IN
         IF m > 0 THEN << "-" >> \o TightenHyphens(s, p + m)
         ELSE << s[p] >> \o TightenHyphens(s, p + 1)

\* re.sub(r'-+', '-', name) and re.sub(r'\s+', ' ', name): a run of
\* characters of chars becomes the single character one.
RECURSIVE CollapseRuns(_, _, _, _)
CollapseRuns(s, p, chars, one) ==
    IF p > Len(s) THEN << >>
    ELSE IF s[p] \in chars
    THEN << one >> \o CollapseRuns(s, SkipWhile(s, p, chars), chars, one)
    ELSE << s[p] >> \o CollapseRuns(s, p + 1, chars, one)

\* Each statement of the function is evaluated on the value the statement
\* before it has assigned to name.
normalize_company_name(name) ==
    IF name = << >> THEN << >>
    ELSE CHOOSE result \in
        {Strip(spaces, {" ", "-"}) :
            spaces \in {CollapseRuns(hyphens, 1, Whitespace, " ") :
            hyphens \in {CollapseRuns(tight, 1, {"-"}, "-") :
            tight \in {TightenHyphens(plain, 1) :
            plain \in {BlankSpecials(replaced) :
            replaced \in {ApplyReplacements(folded, 1) :
            folded \in {FoldCoop(unsuffixed, 1) :
            unsuffixed \in {RemoveSuffixes(unbracketed, 1) :
            unbracketed \in {RemoveBrackets(lowered, 1) :
            lowered \in {Strip(Lower(name), Whitespace)}}}}}}}}}} : TRUE

(***************************************************************************)
(* business_lookup.is_company_match: get_name_variations and the decision. *)
(* A dict is a function from its keys; a tuple is a sequence; a confidence *)
(* is counted in hundredths.                                               *)
(***************************************************************************)
common_words ==
    { << "t", "h", "e" >>,
      << "a", "n", "d" >>,
      << "o", "f" >>,
      << "f", "o", "r" >>,
      << "i", "n" >>,
      << "a", "t" >>,
      << "o", "n" >>,
      << "b", "y" >>,
      << "t", "o" >>,
      << "w", "i", "t", "h" >>,
      << "a" >>,
      << "a", "n" >> }

RECURSIVE Acronym(_)
Acronym(words) ==
    IF words = << >> THEN << >>
    ELSE << ToLower(Head(words)[1]) >> \o Acronym(Tail(words))

RECURSIVE WithoutCommonWords(_)
WithoutCommonWords(words) ==
    IF words = << >> THEN << >>
    ELSE (IF Lower(Head(words)) \in common_words THEN << >> ELSE << Head(words) >>)
         \o WithoutCommonWords(Tail(words))

\* The variations built from the words only, without the full name.
VariationsOfWordsOnly(name) ==
    LET words == LongWords(Split(name))
        acronym == Acronym(words)
    IN  (IF words # << >> /\ Len(acronym) > 1 THEN {acronym} ELSE {})
        \cup (IF words # << >> THEN {words[1]} ELSE {})
        \cup (IF Len(words) > 1 THEN {Join(SubSeq(words, 1, 2), << " " >>)} ELSE {})

\* The variations of a normalized, non-empty name.
VariationsOf(name) ==
    LET words == LongWords(Split(name))
        acronym == Acronym(words)
        filtered_words == WithoutCommonWords(words)
    IN  {name, Replace(name, << "-" >>, << " " >>)}
        \cup (IF words # << >> /\ Len(acronym) > 1 THEN {acronym} ELSE {})
        \cup (IF Len(words) > 1
              THEN {Lower(<< words[1][1], words[2][1] >>)} ELSE {})
        \cup (IF words # << >> THEN {words[1]} ELSE {})
        \cup (IF Len(words) > 1 THEN {Join(SubSeq(words, 1, 2), << " " >>)} ELSE {})
        \cup (IF filtered_words # << >> /\ Len(filtered_words) < Len(words)
              THEN {Join(filtered_words, << " " >>)} ELSE {})
        \cup (IF Len(words) = 2 THEN {Join(Reversed(words), << " " >>)} ELSE {})

get_name_variations(name) ==
    LET normalized == normalize_company_name(name) IN
    IF name = << >> THEN {}
    ELSE IF normalized = << >> THEN {}
    ELSE VariationsOf(normalized)

\* The terms of a variation set: the words of its members longer than two.
TermsOf(variations) ==
    {t \in UNION {Range(Split(v)) : v \in variations} : Len(t) > 2}

\* The variations that count as acronyms: len(v) <= 4 and v.isalpha().
AcronymsOf(variations) ==
    {v \in variations : Len(v) <= 4 /\ v # << >> /\ \A k \in 1..Len(v) : IsAlpha(v[k])}

coop == << "c", "o", "o", "p" >>
co_op == << "c", "o", "-", "o", "p" >>

COMPANY_NAME == "COMPANY NAME"

\* What is returned when company_info is empty or has no 'COMPANY NAME'.
NoCompanyName == << FALSE, << >> >>

\* A search term is a substring of a company term or the reverse.
PartialMatch(search_terms, company_terms) ==
    \E st \in search_terms : \E ct \in company_terms :
        Contains(ct, st) \/ Contains(st, ct)

\* Special handling for co-op variations, on the terms of both names.
CoopMatchOf(all_terms) ==
    /\ \E term \in all_terms : Contains(term, coop) \/ Contains(term, co_op)
    /\ \E t \in all_terms : t \in {coop, co_op}

AcronymMatch(search_variations, company_variations) ==
    (AcronymsOf(search_variations) \cap AcronymsOf(company_variations)) # {}

\* significant_match, as lines 587-615 set it.
SignificantMatch(search_variations, company_variations, search_terms, company_terms) ==
    \/ (search_terms \cap company_terms) # {}
    \/ PartialMatch(search_terms, company_terms)
    \/ CoopMatchOf(search_terms \cup company_terms)
    \/ AcronymMatch(search_variations, company_variations)

\* Mutant: the rule that fired last sets the score.
ConfidenceOfLastRule(search_variations, company_variations, search_terms, company_terms) ==
    IF AcronymMatch(search_variations, company_variations) THEN 80
    ELSE IF CoopMatchOf(search_terms \cup company_terms) THEN 70
    ELSE IF (search_terms \cap company_terms) # {} THEN 85
    ELSE 70

\* confidence_score of a significant match, lines 622-631.
ConfidenceScore(search_variations, company_variations, search_terms, company_terms) ==
    IF (search_terms \cap company_terms) # {} THEN 85
    ELSE IF AcronymMatch(search_variations, company_variations) THEN 80
    ELSE 70

\* The part of is_company_match after the direct matches.
PartialDecision(company_name, search_variations, company_variations, search_terms, company_terms) ==
    IF SignificantMatch(search_variations, company_variations, search_terms, company_terms)
    THEN << TRUE, company_name, ConfidenceScore(search_variations, company_variations, search_terms, company_terms) >>
    ELSE << FALSE, company_name, 0 >>

Decision(company_name, search_variations, company_variations) ==
    IF (search_variations \cap company_variations) # {}
    THEN << TRUE, company_name, 95 >>
    ELSE PartialDecision(company_name, search_variations, company_variations,
                         TermsOf(search_variations), TermsOf(company_variations))

is_company_match(search_name, company_info) ==
    IF DOMAIN company_info = {} \/ COMPANY_NAME \notin DOMAIN company_info
    THEN NoCompanyName
    ELSE Decision(company_info[COMPANY_NAME], get_name_variations(search_name),
                  get_name_variations(company_info[COMPANY_NAME]))

(***************************************************************************)
(* State.                                                                  *)
(*   ConcurrentBusinessProcessor.process_businesses:                       *)
(*     business_names, batch_size, max_concurrent : the arguments          *)
(*     semaphore     : free permits of asyncio.Semaphore(max_concurrent)   *)
(*     opc, i        : position of process_businesses and its loop index   *)
(*     all_results   : the list it builds                                  *)
(*     spc[k]        : position of the task _process_single_business(k)    *)
(*     context[k]    : the browsing context the task created (0: none)     *)
(*     result[k]     : what search_business_optimized returned to it       *)
(*     task[k]       : what the task finished with                         *)
(*     next_context, open_contexts : contexts of the shared browser        *)
(*     faulted       : tasks in which an exception was raised              *)
(*     out_of_order  : a task finished before an earlier one of its batch  *)
(*     slept         : seconds process_businesses has paused between       *)
(*                     batches                                             *)
(***************************************************************************)
VARIABLES business_names, batch_size, max_concurrent, semaphore, opc, i,
          all_results, spc, context, result, task, next_context,
          open_contexts, faulted, out_of_order, slept

(***************************************************************************)
(*   One call of PlaywrightScraper.search_business_optimized:              *)
(*     sq_name, sq_page : the name searched and the page met               *)
(*     sq_pc            : "ready" before the call, "done" after it         *)
(*     sq_out           : what the call did                                *)
(***************************************************************************)
VARIABLES sq_name, sq_page, sq_pc, sq_out

search_vars == << sq_name, sq_page, sq_pc, sq_out >>

(***************************************************************************)
(*   Calls of the name matcher of business_lookup:                         *)
(*     m_search : the name searched for                                    *)
(*     m_info   : the company_info handed to is_company_match              *)
(*     m_pc     : "ready", then what was called                            *)
(*     m_norm   : normalize_company_name of m_search, then of that         *)
(*     m_vars   : get_name_variations(m_search)                            *)
(*     m_ret    : what is_company_match returned                           *)
(***************************************************************************)
VARIABLES m_search, m_info, m_pc, m_norm, m_vars, m_ret

match_vars == << m_search, m_info, m_pc, m_norm, m_vars, m_ret >>

(***************************************************************************)
(*   One run of process_owners_concurrent:                                 *)
(*     owners_list    : sorted(owners)                                     *)
(*     ow_pc          : position of the function                           *)
(*     batch_start    : the variable of its batch loop                     *)
(*     search_results : what search_multiple_businesses returned           *)
(*     ow_i           : results of the batch handled so far                *)
(*     results        : the dict it builds, owner -> entry                 *)
(*     details        : the owners whose section the report holds          *)
(*     ow_clock       : time slept between batches                         *)
(*     ow_error       : the exception that left the function               *)
(***************************************************************************)
VARIABLES owners_list, ow_pc, batch_start, search_results, ow_i, results,
          details, ow_clock, ow_error

owner_vars == << owners_list, ow_pc, batch_start, search_results, ow_i, results,
                 details, ow_clock, ow_error >>

(***************************************************************************)
(*   One call of business_lookup.extract_company_info:                     *)
(*     x_html  : the document handed to it                                 *)
(*     x_pc    : the statement that runs next, "returned" after the call   *)
(*     x_info  : the field map built so far                                *)
(*     x_block : the result block, once found                              *)
(*     x_error : the exception raised in the body, if any                  *)
(*     x_ret   : what the call returned                                    *)
(***************************************************************************)
VARIABLES x_html, x_pc, x_info, x_block, x_error, x_ret

extract_vars == << x_html, x_pc, x_info, x_block, x_error, x_ret >>

(***************************************************************************)
(*   One call of business_lookup.search_ontario_business (Selenium):       *)
(*     se_page   : how the driver's calls on the page end                  *)
(*     se_pc     : the statement that runs next, "returned" after the call *)
(*     se_j      : the candidate of search_button_selectors tried next     *)
(*     se_button : search_button, 0 for None, else the candidate it is of  *)
(*     se_clicks : the candidates whose click() returned                   *)
(*     se_waited : the 10 s sleep for the results was done                 *)
(*     se_ret    : what the call returned                                  *)
(***************************************************************************)
VARIABLES se_page, se_pc, se_j, se_button, se_clicks, se_waited, se_ret

selenium_vars == << se_page, se_pc, se_j, se_button, se_clicks, se_waited, se_ret >>

(***************************************************************************)
(*   One call of PlaywrightScraper.search_multiple_concurrent:             *)
(*     mc_names   : the names handed to it                                 *)
(*     mc_pc      : "loop" while it runs, then "returned" or "raised"      *)
(*     mc_page    : self.page, the page the scraper was started with       *)
(*     mc_results : the list it builds                                     *)
(*     mc_served  : for each query run so far, the page it ran on          *)
(*     mc_slept   : time slept between the searches, in tenths of a second *)
(***************************************************************************)
VARIABLES mc_names, mc_pc, mc_page, mc_results, mc_served, mc_slept

multi_vars == << mc_names, mc_pc, mc_page, mc_results, mc_served, mc_slept >>

(***************************************************************************)
(*   One call of business_lookup.is_company_match on a pair of names:      *)
(*     p_search  : the name searched for                                   *)
(*     p_company : the 'COMPANY NAME' of the company_info handed to it     *)
(*     p_pc      : "ready" before the call, "decided" after it             *)
(*     p_ret     : what the call returned                                  *)
(***************************************************************************)
VARIABLES p_search, p_company, p_pc, p_ret

pair_vars == << p_search, p_company, p_pc, p_ret >>

(***************************************************************************)
(*   One call of _smart_wait_for_results, poll by poll:                    *)
(*     w_pc   : "poll" at the loop test, then "returned" or "raised"       *)
(*     w_el   : time.time() - start_time at the loop test or at the        *)
(*              return, in tenths of a second                              *)
(*     w_n    : polls started                                              *)
(*     w_last : the last poll: what it saw, the elapsed time at which it   *)
(*              started and the elapsed time at which it decided           *)
(*     w_why  : the exit taken                                             *)
(***************************************************************************)
VARIABLES w_pc, w_el, w_n, w_last, w_why

wait_vars == << w_pc, w_el, w_n, w_last, w_why >>

\* What the actions of each part leave alone.
not_orch == << search_vars, match_vars, owner_vars, extract_vars, selenium_vars, multi_vars, pair_vars, wait_vars >>

orch_vars == << business_names, batch_size, max_concurrent, semaphore, opc, i,
                all_results, spc, context, result, task, next_context,
                open_contexts, faulted, out_of_order, slept >>

\* The names of a run: the first n of the module's test list.
test_businesses ==
    << "MTD Products Limited", "Canadian Tire Corporation", "Shoppers Drug Mart Inc.",
       "Loblaws Inc.", "Hudson's Bay Company" >>

Tasks == 1..MaxQueries

Pending == [raised |-> FALSE, value |-> NoResult, error |-> "<pending>"]

\* business_names[i:i + batch_size], as the indices of its tasks.
Batch(start) == {k \in 1..Len(business_names) : start < k /\ k <= start + batch_size}

Active == {k \in Tasks : spc[k] \in {"new_context", "new_page", "search", "close"}}

\* The pages the sessions of a batch may meet.
AllAbsent == [j \in Selectors |-> "absent"]
GoodWait == [found_at |-> 1, none_at |-> 0, loading_until |-> 0, raises |-> FALSE]
GoodPage(doc) ==
    [goto |-> "ok", cookie |-> "ok", input |-> "ok", fill |-> "ok",
     buttons |-> [AllAbsent EXCEPT ![1] = "click_ok"], load |-> "ok",
     wait |-> GoodWait, content |-> doc, lat |-> 1]
BatchPages ==
    {GoodPage(d) : d \in Docs} \cup
    {[GoodPage("err") EXCEPT !.goto = "err"],
     [GoodPage("err") EXCEPT !.buttons = AllAbsent],
     GoodPage("err")}

OrchInit ==
    /\ \E n \in 0..MaxQueries : business_names = SubSeq(test_businesses, 1, n)
    /\ batch_size \in 1..MaxBatch
    /\ max_concurrent \in 1..MaxConcurrent
    /\ semaphore = max_concurrent
    /\ opc = "idle"
    /\ i = 0
    /\ all_results = << >>
    /\ spc = [k \in Tasks |-> "idle"]
    /\ context = [k \in Tasks |-> 0]
    /\ result = [k \in Tasks |-> NoResult]
    /\ task = [k \in Tasks |-> Pending]
    /\ next_context = 1
    /\ open_contexts = {}
    /\ faulted = {}
    /\ out_of_order = FALSE
    /\ slept = 0

\* tasks = [self._process_single_business(name) for name in batch]
StartBatch(start) ==
    spc' = [k \in Tasks |-> IF k \in Batch(start) THEN "wait" ELSE spc[k]]

\* process_businesses is called: the loop is entered, or skipped for no names.
Call ==
    /\ opc = "idle"
    /\ i' = 0
    /\ IF Len(business_names) = 0
       THEN opc' = "returned" /\ spc' = spc
       ELSE opc' = "gather" /\ StartBatch(0)
    /\ UNCHANGED not_orch
    /\ UNCHANGED << business_names, slept, batch_size, max_concurrent, semaphore, all_results,
                    context, result, task, next_context, open_contexts, faulted,
                    out_of_order >>

\* Mutant: the gate admits every task.
SemaphoreAlwaysFree == TRUE

\* async with self.semaphore: a permit is free.
SemaphoreFree == semaphore > 0

Acquire(k) ==
    /\ spc[k] = "wait"
    /\ SemaphoreFree
    /\ semaphore' = semaphore - 1
    /\ spc' = [spc EXCEPT ![k] = "new_context"]
    /\ UNCHANGED not_orch
    /\ UNCHANGED << business_names, slept, batch_size, max_concurrent, opc, i, all_results,
                    context, result, task, next_context, open_contexts, faulted,
                    out_of_order >>

\* Mutant: the handler forgets to return the failed SearchResult.
ProcessExceptReturnsNone(business_name, e) == Returned(NoResult)

\* except Exception as e: of _process_single_business.
ProcessExcept(business_name, e) ==
    Returned(SearchResult(business_name, "", FALSE, e, 0, 0))

\* Mutant: leaving the block keeps the permit.
release_skipped(permits) == permits

\* The end of async with self.semaphore: the permit goes back to the gate.
release(permits) == permits + 1

\* The task ends with outcome r: the async with block is left, the permit
\* released.
Finish(k, r) ==
    /\ task' = [task EXCEPT ![k] = r]
    /\ spc' = [spc EXCEPT ![k] = "done"]
    /\ result' = [result EXCEPT ![k] = NoResult]
    /\ semaphore' = release(semaphore)
    /\ out_of_order' = (out_of_order \/ \E j \in Batch(i) : j < k /\ spc[j] # "done")

\* Mutant: the sessions are handed the one context of a shared scraper.
new_context_shared(created) == 1

\* self.browser.new_context(...): a context that did not exist before, the
\* next one after the created contexts the browser has made so far.
new_context(created) == created + 1

NewContextOk(k) ==
    /\ spc[k] = "new_context"
    /\ context' = [context EXCEPT ![k] = new_context(next_context - 1)]
    /\ open_contexts' = open_contexts \cup {new_context(next_context - 1)}
    /\ next_context' = next_context + 1
    /\ spc' = [spc EXCEPT ![k] = "new_page"]
    /\ UNCHANGED not_orch
    /\ UNCHANGED << business_names, slept, batch_size, max_concurrent, semaphore, opc, i,
                    all_results, result, task, faulted, out_of_order >>

NewContextFails(k) ==
    /\ spc[k] = "new_context"
    /\ Finish(k, ProcessExcept(business_names[k], "Error: browser.new_context"))
    /\ faulted' = faulted \cup {k}
    /\ UNCHANGED not_orch
    /\ UNCHANGED << business_names, slept, batch_size, max_concurrent, opc, i, all_results,
                    context, next_context, open_contexts >>

NewPageOk(k) ==
    /\ spc[k] = "new_page"
    /\ spc' = [spc EXCEPT ![k] = "search"]
    /\ UNCHANGED not_orch
    /\ UNCHANGED << business_names, slept, batch_size, max_concurrent, semaphore, opc, i,
                    all_results, context, result, task, next_context, open_contexts,
                    faulted, out_of_order >>

NewPageFails(k) ==
    /\ spc[k] = "new_page"
    /\ Finish(k, ProcessExcept(business_names[k], "Error: context.new_page"))
    /\ faulted' = faulted \cup {k}
    /\ UNCHANGED not_orch
    /\ UNCHANGED << business_names, slept, batch_size, max_concurrent, opc, i, all_results,
                    context, next_context, open_contexts >>

\* result = await scraper.search_business_optimized(business_name)
Search(k) ==
    /\ spc[k] = "search"
    /\ \E page \in BatchPages :
         LET r == search_business_optimized(business_names[k], page) IN
         IF r.raised
         THEN /\ Finish(k, ProcessExcept(business_names[k], r.error))
              /\ faulted' = faulted \cup {k}
         ELSE /\ result' = [result EXCEPT ![k] = r.value]
              /\ spc' = [spc EXCEPT ![k] = "close"]
              /\ faulted' = IF r.value.success THEN faulted ELSE faulted \cup {k}
              /\ UNCHANGED << task, semaphore, out_of_order >>
    /\ UNCHANGED not_orch
    /\ UNCHANGED << business_names, slept, batch_size, max_concurrent, opc, i, all_results,
                    context, next_context, open_contexts >>

\* await context.close(); return result
CloseOk(k) ==
    /\ spc[k] = "close"
    /\ open_contexts' = open_contexts \ {context[k]}
    /\ Finish(k, Returned(result[k]))
    /\ UNCHANGED not_orch
    /\ UNCHANGED << business_names, slept, batch_size, max_concurrent, opc, i, all_results,
                    context, next_context, faulted >>

CloseFails(k) ==
    /\ spc[k] = "close"
    /\ Finish(k, ProcessExcept(business_names[k], "Error: context.close"))
    /\ faulted' = faulted \cup {k}
    /\ UNCHANGED not_orch
    /\ UNCHANGED << business_names, slept, batch_size, max_concurrent, opc, i, all_results,
                    context, next_context, open_contexts >>

\* Mutant: the batch is collected as soon as one task is done.
GatherReadyAny == \E k \in Batch(i) : spc[k] = "done"

\* asyncio.gather(*tasks, return_exceptions=True) has every result.
GatherReady == \A k \in Batch(i) : spc[k] = "done"

\* The loop over batch_results: an exception becomes a failed SearchResult.
BatchResult(k) ==
    IF task[k].raised
    THEN SearchResult(business_names[k], "", FALSE, task[k].error, 0, 0)
    ELSE task[k].value

\* Mutant: the results are appended last task first.
RECURSIVE BatchResultsReversed(_, _)
BatchResultsReversed(start, j) ==
    IF start + j > Len(business_names) \/ j > batch_size THEN << >>
    ELSE BatchResultsReversed(start, j + 1) \o << BatchResult(start + j) >>

RECURSIVE BatchResults(_, _)
BatchResults(start, j) ==
    IF start + j > Len(business_names) \/ j > batch_size THEN << >>
    ELSE << BatchResult(start + j) >> \o BatchResults(start, j + 1)

\* More names follow this batch: if i + batch_size < len(business_names).
MoreBatches == i + batch_size < Len(business_names)

GatherDone ==
    /\ opc = "gather"
    /\ GatherReady
    /\ all_results' = all_results \o BatchResults(i, 1)
    /\ opc' = IF MoreBatches THEN "pause" ELSE "returned"
    /\ UNCHANGED not_orch
    /\ UNCHANGED << business_names, slept, batch_size, max_concurrent, semaphore, i, spc,
                    context, result, task, next_context, open_contexts, faulted,
                    out_of_order >>

\* The pause between two batches, in seconds.
COOL_DOWN == 2

\* Mutant: the pause is left out.
sleep_skipped(t) == t

\* await asyncio.sleep(2), on the time slept so far.
sleep(t) == t + COOL_DOWN

\* await asyncio.sleep(2) is over: the next iteration creates its tasks.
Pause ==
    /\ opc = "pause"
    /\ slept' = sleep(slept)
    /\ i' = i + batch_size
    /\ StartBatch(i + batch_size)
    /\ opc' = "gather"
    /\ UNCHANGED not_orch
    /\ UNCHANGED << business_names, batch_size, max_concurrent, semaphore, all_results,
                    context, result, task, next_context, open_contexts, faulted,
                    out_of_order >>

OrchNext ==
    \/ Call
    \/ \E k \in Tasks : Acquire(k)
    \/ \E k \in Tasks : NewContextOk(k)
    \/ \E k \in Tasks : NewContextFails(k)
    \/ \E k \in Tasks : NewPageOk(k)
    \/ \E k \in Tasks : NewPageFails(k)
    \/ \E k \in Tasks : Search(k)
    \/ \E k \in Tasks : CloseOk(k)
    \/ \E k \in Tasks : CloseFails(k)
    \/ GatherDone
    \/ Pause

not_search == << orch_vars, match_vars, owner_vars, extract_vars, selenium_vars, multi_vars, pair_vars, wait_vars >>
not_match == << orch_vars, search_vars, owner_vars, extract_vars, selenium_vars, multi_vars, pair_vars, wait_vars >>
not_owner == << orch_vars, search_vars, match_vars, extract_vars, selenium_vars, multi_vars, pair_vars, wait_vars >>
not_selenium == << orch_vars, search_vars, match_vars, owner_vars, extract_vars, multi_vars, pair_vars, wait_vars >>
not_multi == << orch_vars, search_vars, match_vars, owner_vars, extract_vars, selenium_vars, pair_vars, wait_vars >>
not_pair == << orch_vars, search_vars, match_vars, owner_vars, extract_vars, selenium_vars, multi_vars, wait_vars >>
not_wait == << orch_vars, search_vars, match_vars, owner_vars, extract_vars, selenium_vars, multi_vars, pair_vars >>
not_extract == << orch_vars, search_vars, match_vars, owner_vars, selenium_vars, multi_vars, pair_vars, wait_vars >>

OrchIdle ==
    /\ business_names = << >>
    /\ batch_size = 1
    /\ max_concurrent = 1
    /\ semaphore = 1
    /\ opc = "off"
    /\ i = 0
    /\ all_results = << >>
    /\ spc = [k \in Tasks |-> "idle"]
    /\ context = [k \in Tasks |-> 0]
    /\ result = [k \in Tasks |-> NoResult]
    /\ task = [k \in Tasks |-> Pending]
    /\ next_context = 1
    /\ open_contexts = {}
    /\ faulted = {}
    /\ out_of_order = FALSE
    /\ slept = 0

(***************************************************************************)
(* A single retrieval session, on every page of the bounded set Pages.     *)
(***************************************************************************)
OkErr == {"ok", "err"}

\* Candidate buttons: behaviour x before selector a, behaviour y from a on.
ButtonScripts ==
    {[j \in Selectors |-> IF j < a THEN x ELSE y] :
        a \in {1, 3, Len(search_button_selectors)},
        x \in {"absent", "count_err", "click_err"},
        y \in ButtonBehaviours}

SessionWaits ==
    [found_at : {0, 3}, none_at : {0, 2}, loading_until : {0, 99}, raises : BOOLEAN]

Pages ==
    [goto : OkErr, cookie : OkErr, input : OkErr, fill : OkErr, load : OkErr,
     buttons : ButtonScripts, wait : SessionWaits, content : Docs \cup {"err"},
     lat : 0..MaxLatency]

SearchIdle ==
    /\ sq_name = ""
    /\ sq_page = GoodPage("err")
    /\ sq_pc = "off"
    /\ sq_out = Pending

SearchInit ==
    /\ sq_name \in {test_businesses[1]}
    /\ sq_page \in Pages
    /\ sq_pc = "ready"
    /\ sq_out = Pending

SearchCall ==
    /\ sq_pc = "ready"
    /\ sq_out' = search_business_optimized(sq_name, sq_page)
    /\ sq_pc' = "done"
    /\ UNCHANGED << sq_name, sq_page >>
    /\ UNCHANGED not_search

(***************************************************************************)
(* The name matcher, on the names made of at most MaxFragments fragments.  *)
(***************************************************************************)
Fragments ==
    { << "C", "o" >>, << "o", "p" >>, << "i", "n" >>, << "c" >>, << "p" >>,
      << " " >>, << "-" >>, << "." >>, << "'" >> }

RECURSIVE NamesOf(_)
NamesOf(n) ==
    IF n = 0 THEN {<< >>}
    ELSE LET shorter == NamesOf(n - 1) IN
         shorter \cup {a \o f : a \in shorter, f \in Fragments}

Names == NamesOf(MaxFragments)

\* str.upper()
ToUpper(c) ==
    IF IsLowerAscii(c)
    THEN UpperLetters[CHOOSE k \in DOMAIN LowerLetters : LowerLetters[k] = c]
    ELSE c
Upper(s) == [k \in 1..Len(s) |-> ToUpper(s[k])]

\* The casing and legal-suffix variants of a name.
Variants(n) ==
    {n, Upper(n), Lower(n), n \o << " ", "I", "n", "c", "." >>, n \o << " ", "L", "t", "d" >>}

\* The dicts handed to is_company_match for a name: the empty one, one
\* without 'COMPANY NAME', and one per variant of the name.
CompanyInfos(n) ==
    {<< >>, [x \in {"STATUS"} |-> << "A", "c", "t", "i", "v", "e" >>]}
    \cup {[x \in {COMPANY_NAME} |-> v] : v \in Variants(n) \ {<< >>}}

MatchIdle ==
    /\ m_search = << >>
    /\ m_info = << >>
    /\ m_pc = "off"
    /\ m_norm = << >>
    /\ m_vars = {}
    /\ m_ret = << >>

MatchInit ==
    /\ m_search \in Names
    /\ m_info = << >>
    /\ m_pc = "ready"
    /\ m_norm = << >>
    /\ m_vars = {}
    /\ m_ret = << >>

\* normalize_company_name(name)
Normalize ==
    /\ m_pc = "ready"
    /\ m_norm' = normalize_company_name(m_search)
    /\ m_pc' = "normalized"
    /\ UNCHANGED << m_search, m_info, m_vars, m_ret >>
    /\ UNCHANGED not_match

\* normalize_company_name of the normalized name.
Renormalize ==
    /\ m_pc = "normalized"
    /\ m_norm' = normalize_company_name(m_norm)
    /\ m_pc' = "renormalized"
    /\ UNCHANGED << m_search, m_info, m_vars, m_ret >>
    /\ UNCHANGED not_match

\* get_name_variations(name)
Variations ==
    /\ m_pc = "ready"
    /\ m_vars' = get_name_variations(m_search)
    /\ m_pc' = "varied"
    /\ UNCHANGED << m_search, m_info, m_norm, m_ret >>
    /\ UNCHANGED not_match

\* is_match, matched_name, confidence_score = is_company_match(search_term,
\* company_info): the unpacking raises ValueError unless three values return.
Match ==
    /\ m_pc = "ready"
    /\ \E info \in CompanyInfos(m_search) :
         /\ m_info' = info
         /\ m_ret' = is_company_match(m_search, info)
         /\ m_pc' = IF Len(m_ret') = 3 THEN "matched" ELSE "raised"
    /\ UNCHANGED << m_search, m_norm, m_vars >>
    /\ UNCHANGED not_match

MatchNext == Normalize \/ Renormalize \/ Variations \/ Match

(***************************************************************************)
(* process_geojson_concurrent: the document of a retrieval, as what        *)
(* parsing it finds.                                                       *)
(*   size       : len(html_content)                                        *)
(*   cleaned    : what clean_html_content does with it: "raises",          *)
(*                "empty" (it returns ''), "text" (it returns markup)      *)
(*   no_results : the cleaned text holds "no results found"/"no matches"   *)
(*   anchors, spans : the strings of its <a> and <span> elements, in order *)
(*   status, business_type, incorporation_date, location : the text of the *)
(*                first element the dedicated lookup finds, "" if none     *)
(***************************************************************************)
Document(size, cleaned, no_results, anchors, spans, status, business_type, incorporation_date, location) ==
    [size |-> size, cleaned |-> cleaned, no_results |-> no_results,
     anchors |-> anchors, spans |-> spans, status |-> status,
     business_type |-> business_type, incorporation_date |-> incorporation_date,
     location |-> location]

\* "(digits)" at position q of s: its length, 0 if none.
NumberAt(s, q) ==
    LET r == SkipWhile(s, q + 1, DigitChars) IN
    IF q <= Len(s) /\ s[q] = "(" /\ r > q + 1 /\ r <= Len(s) /\ s[r] = ")"
    THEN r - q + 1 ELSE 0

\* re.compile(r'.*\(\d+\)') finds a match in s.
HasNumber(s) == \E q \in 1..Len(s) : NumberAt(s, q) > 0

\* re.match(r'(.+?)\s*\((\d+)\)', s): the shortest non-empty prefix that
\* whitespace and "(digits)" follow.
NameNumberMatch(s) ==
    LET prefixes == {n \in 1..Len(s) : NumberAt(s, SkipWhile(s, n + 1, Whitespace)) > 0}
        n == CHOOSE a \in prefixes : \A b \in prefixes : a <= b
        q == SkipWhile(s, n + 1, Whitespace)
    IN  IF prefixes = {} THEN [found |-> FALSE, name |-> << >>, number |-> << >>]
        ELSE [found |-> TRUE,
              name |-> Strip(SubSeq(s, 1, n), Whitespace),
              number |-> SubSeq(s, q + 1, q + NumberAt(s, q) - 2)]

EmptyDict == << >>
NoContent == ""
CleanedContent == "<cleaned>"

\* What extract_company_info_from_html returns: a tuple (dict, content), or
\* a dict.  A dict is a function from its keys.
extract_company_info_from_html(html_content, business_name) ==
    IF html_content.size = 0 THEN << EmptyDict, NoContent >>
    ELSE IF html_content.cleaned = "raises" THEN << EmptyDict, NoContent >>
    ELSE IF html_content.cleaned = "empty" THEN << EmptyDict, NoContent >>
    ELSE IF html_content.no_results
    THEN << [COMPANY_NAME |-> business_name, STATUS |-> "No Results Found",
             BUSINESS_TYPE |-> "N/A", INCORPORATION_DATE |-> "N/A",
             LOCATION |-> "N/A", ONTARIO_CORP_NUMBER |-> "N/A"],
            CleanedContent >>
    ELSE LET company_links == SelectSeq(html_content.anchors, HasNumber)
             link_match == IF company_links = << >> THEN NameNumberMatch(<< >>)
                           ELSE NameNumberMatch(Strip(company_links[1], Whitespace))
             company_spans == SelectSeq(html_content.spans, HasNumber)
             span_match == IF company_spans = << >> THEN NameNumberMatch(<< >>)
                           ELSE NameNumberMatch(Strip(company_spans[1], Whitespace))
             found(text, default) == IF text = "" THEN default ELSE text
         IN  IF link_match.found
             THEN << [COMPANY_NAME |-> link_match.name,
                      STATUS |-> found(html_content.status, "Active"),
                      BUSINESS_TYPE |-> found(html_content.business_type, "N/A"),
                      INCORPORATION_DATE |-> found(html_content.incorporation_date, "N/A"),
                      LOCATION |-> found(html_content.location, "N/A"),
                      ONTARIO_CORP_NUMBER |-> link_match.number],
                     CleanedContent >>
             ELSE IF span_match.found
             THEN [COMPANY_NAME |-> span_match.name, STATUS |-> "Found",
                   BUSINESS_TYPE |-> "N/A", INCORPORATION_DATE |-> "N/A",
                   LOCATION |-> "N/A", ONTARIO_CORP_NUMBER |-> span_match.number]
             ELSE << EmptyDict, CleanedContent >>

\* re.findall(r'\w+', s): the maximal runs of word characters from p on.
RECURSIVE FindWords(_, _)
FindWords(s, p) ==
    IF p > Len(s) THEN << >>
    ELSE IF ~IsWordChar(s[p]) THEN FindWords(s, p + 1)
    ELSE LET e == CHOOSE e \in p..Len(s) :
                    /\ \A k \in p..e : IsWordChar(s[k])
                    /\ e = Len(s) \/ ~IsWordChar(s[e + 1])
         IN  << SubSeq(s, p, e) >> \o FindWords(s, e + 1)

\* is_company_match of process_geojson_concurrent; a confidence is counted
\* in hundredths.
concurrent_is_company_match(search_term, company_info) ==
    IF DOMAIN company_info = {} THEN << FALSE, << >>, 0 >>
    ELSE IF "COMPANY_NAME" \notin DOMAIN company_info THEN << FALSE, << >>, 0 >>
    ELSE IF company_info.COMPANY_NAME = << >> THEN << FALSE, << >>, 0 >>
    ELSE LET company_name == company_info.COMPANY_NAME
             search_normalized == Join(FindWords(Lower(search_term), 1), << " " >>)
             company_normalized == Join(FindWords(Lower(company_name), 1), << " " >>)
             search_words == Range(Split(search_normalized))
             company_words == Range(Split(company_normalized))
             overlap == Cardinality(search_words \cap company_words)
         IN  IF \/ Contains(company_normalized, search_normalized)
                \/ Contains(search_normalized, company_normalized)
             THEN << TRUE, company_name, 100 >>
             ELSE IF /\ search_words # {}
                     /\ overlap * 10 >= 7 * Cardinality(search_words)
             THEN << TRUE, company_name, (overlap * 100) \div Cardinality(search_words) >>
             ELSE << FALSE, company_name, 0 >>

\* Owner names, in sorted order.
OwnerNames ==
    << << "A", "L", " ", "B" >>,
       << "B", "O", " ", "C" >>,
       << "C", "Y", " ", "D" >>,
       << "D", "I", " ", "E" >>,
       << "E", "D", " ", "F" >>,
       << "F", "I", " ", "G" >>,
       << "G", "U", "S", " ", "H" >>,
       << "H", "A", "L", " ", "I" >> >>

NumberSuffix == << " ", "(", "1", "2", ")" >>
OtherCompany == << "Z", "E", "D", " ", "C", "O", "R", "P", " ", "(", "7", ")" >>
BareNumber == << "(", "1", "2", ")" >>
PlainText == << "A", "L", " ", "Z", "E", "D" >>

\* The documents the portal can answer a search for owner with.
OwnerDocuments(owner) ==
    LET hit == owner \o NumberSuffix
        page(anchors, spans) ==
            Document(1, "text", FALSE, anchors, spans, "", "", "", "")
    IN  << Document(0, "text", FALSE, << >>, << >>, "", "", "", ""),
           Document(1, "raises", FALSE, << hit >>, << >>, "", "", "", ""),
           Document(1, "empty", FALSE, << hit >>, << >>, "", "", "", ""),
           Document(1, "text", TRUE, << hit >>, << >>, "", "", "", ""),
           Document(1, "text", FALSE, << PlainText, hit, OtherCompany >>, << >>,
                    "Inactive", "Corporation", "May 1, 1990", "Toronto, Ontario, Canada"),
           page(<< OtherCompany >>, << hit >>),
           page(<< BareNumber >>, << >>),
           page(<< PlainText >>, << hit >>),
           page(<< >>, << BareNumber, hit >>),
           page(<< >>, << >>) >>

\* What a retrieval ends with: kind 0 is a failed search, kind d > 0 a
\* successful one that read the d-th document.
Outcome(owner, kind) ==
    IF kind = 0
    THEN SearchResult(owner, OwnerDocuments(owner)[1], FALSE, "Error: search failed", 10, 0)
    ELSE SearchResult(owner, OwnerDocuments(owner)[kind], TRUE, "", 10,
                      OwnerDocuments(owner)[kind].size)

OutcomeKinds == 0..Len(OwnerDocuments(<< >>))

\* ConcurrentPlaywrightScraper.search_multiple_businesses: one outcome per
\* name, in the order of the names; here all of one kind but one.
search_multiple_businesses(batch) ==
    {[k \in 1..Len(batch) |-> Outcome(batch[k], IF k = a THEN y ELSE x)] :
        a \in 1..Len(batch), x \in OutcomeKinds, y \in OutcomeKinds}

BATCH_SIZE == 5
BATCH_PAUSE == 30

total_owners == Len(owners_list)
batch_end == Min(batch_start + BATCH_SIZE, total_owners)
OwnerBatch == SubSeq(owners_list, batch_start + 1, batch_end)

\* The number of values that unpacking ret yields: the items of a tuple,
\* the keys of a dict.
Items(ret) == Cardinality(DOMAIN ret)

OwnersIdle ==
    /\ owners_list = << >>
    /\ ow_pc = "off"
    /\ batch_start = 0
    /\ search_results = << >>
    /\ ow_i = 0
    /\ results = << >>
    /\ details = << >>
    /\ ow_clock = 0
    /\ ow_error = ""

OwnersInit ==
    /\ \E n \in 0..Min(MaxOwners, Len(OwnerNames)) : owners_list = SubSeq(OwnerNames, 1, n)
    /\ ow_pc = "batch"
    /\ batch_start = 0
    /\ search_results = << >>
    /\ ow_i = 0
    /\ results = << >>
    /\ details = << >>
    /\ ow_clock = 0
    /\ ow_error = ""

\* search_results = await scraper.search_multiple_businesses(batch)
SearchBatch ==
    /\ ow_pc = "batch"
    /\ batch_start < total_owners
    /\ search_results' \in search_multiple_businesses(OwnerBatch)
    /\ ow_i' = 0
    /\ ow_pc' = "results"
    /\ UNCHANGED << owners_list, batch_start, results, details, ow_clock, ow_error >>
    /\ UNCHANGED not_owner

\* The batch loop is over: the summary, and return results.
OwnersReturn ==
    /\ ow_pc = "batch"
    /\ batch_start >= total_owners
    /\ ow_pc' = "returned"
    /\ UNCHANGED << owners_list, batch_start, search_results, ow_i, results, details,
                    ow_clock, ow_error >>
    /\ UNCHANGED not_owner

\* The result the loop over zip(batch, search_results) is at.
AtResult ==
    /\ ow_pc = "results"
    /\ ow_i < Len(OwnerBatch)
owner == OwnerBatch[ow_i + 1]
result_of_owner == search_results[ow_i + 1]
extracted == extract_company_info_from_html(result_of_owner.html_content, owner)

\* The section header is written; then on to the next result, and after the
\* last one to the pause or to the next batch.
NextResult ==
    /\ details' = Append(details, owner)
    /\ ow_i' = ow_i + 1
    /\ IF ow_i + 1 < Len(OwnerBatch) THEN ow_pc' = "results" /\ batch_start' = batch_start
       ELSE IF batch_end < total_owners THEN ow_pc' = "pause" /\ batch_start' = batch_start
       ELSE ow_pc' = "batch" /\ batch_start' = batch_start + BATCH_SIZE
    /\ UNCHANGED << owners_list, search_results, ow_clock, ow_error >>
    /\ UNCHANGED not_owner

\* if not result.success: ... continue
SearchFailed ==
    /\ AtResult
    /\ ~result_of_owner.success
    /\ UNCHANGED results
    /\ NextResult

\* company_info, cleaned_content = extract_company_info_from_html(...)
\* raises ValueError unless two values are returned; nothing catches it.
UnpackRaises ==
    /\ AtResult
    /\ result_of_owner.success
    /\ Items(extracted) # 2
    /\ details' = Append(details, owner)
    /\ ow_pc' = "raised"
    /\ ow_error' = "ValueError"
    /\ UNCHANGED << owners_list, batch_start, search_results, ow_i, results, ow_clock >>
    /\ UNCHANGED not_owner

\* if not company_info: ... continue
NoCompanyInfo ==
    /\ AtResult
    /\ result_of_owner.success
    /\ Items(extracted) = 2
    /\ DOMAIN extracted[1] = {}
    /\ UNCHANGED results
    /\ NextResult

\* is_company_match, the report, and results[owner] = {...}
RecordResult ==
    /\ AtResult
    /\ result_of_owner.success
    /\ Items(extracted) = 2
    /\ DOMAIN extracted[1] # {}
    /\ LET company_info == extracted[1]
           matched == concurrent_is_company_match(owner, company_info)
           entry == [match |-> matched[1], matched_name |-> matched[2],
                     confidence_score |-> matched[3], company_info |-> company_info,
                     search_time |-> result_of_owner.search_time,
                     content_size |-> result_of_owner.html_content.size]
       IN  results' = [o \in DOMAIN results \cup {owner} |->
                          IF o = owner THEN entry ELSE results[o]]
    /\ NextResult

\* await asyncio.sleep(3), then the next batch.
OwnersPause ==
    /\ ow_pc = "pause"
    /\ ow_clock' = ow_clock + BATCH_PAUSE
    /\ batch_start' = batch_start + BATCH_SIZE
    /\ ow_pc' = "batch"
    /\ UNCHANGED << owners_list, search_results, ow_i, results, details, ow_error >>
    /\ UNCHANGED not_owner

OwnersNext ==
    \/ SearchBatch
    \/ SearchFailed
    \/ UnpackRaises
    \/ NoCompanyInfo
    \/ RecordResult
    \/ OwnersPause
    \/ OwnersReturn

(***************************************************************************)
(* business_lookup.extract_company_info: one rendered document to a field  *)
(* map.  A document is described by what the selectors of the code find   *)
(* in it: for each entry of result_selectors the blocks it selects, and    *)
(* for a block the texts and rows that the inner selectors and the two     *)
(* label/value patterns yield.  Field maps are functions from keys to      *)
(* values, both strings (sequences of characters).                         *)
(***************************************************************************)
result_selectors ==
    << "div.registerItemSearch-results-page-line", "div.search-result", "div.result-item", "div[class*=\"result\"]", "div[class*=\"item\"]" >>

EmptyInfo == << >>
CORPORATION_TYPE == << "C", "O", "R", "P", "O", "R", "A", "T", "I", "O", "N", " ", "T", "Y", "P", "E" >>
COMPANY_NAME_KEY == << "C", "O", "M", "P", "A", "N", "Y", " ", "N", "A", "M", "E" >>
RAW_HTML_KEY == << "_", "r", "a", "w", "_", "h", "t", "m", "l" >>
ERROR_KEY == << "E", "R", "R", "O", "R" >>
NotSpecified == << "N", "o", "t", " ", "s", "p", "e", "c", "i", "f", "i", "e", "d" >>
Ellipsis == << ".", ".", "." >>

\* info[key] = value
SetItem(info, key, value) == [k \in DOMAIN info \cup {key} |-> IF k = key THEN value ELSE info[k]]

\* str(x)[:limit]: the first limit characters.
Truncate(s, limit) == SubSeq(s, 1, Min(Len(s), limit))

\* The markup text of an element of the given length.
Markup(size) == [k \in 1..size |-> "x"]

\* A row element: the length of str(row) and, for each of the two
\* label_value_patterns, the groups (1, 2) of its match, << >> when the
\* pattern does not match.
Row(size, colon, bold) == [size |-> size, groups |-> << colon, bold >>]
NoMatch == << >>

\* The processor of both patterns: (group(1).strip().upper(), group(2).strip()).
Processor(groups) == << Upper(Strip(groups[1], Whitespace)), Strip(groups[2], Whitespace) >>

\* Lines 384-392 for one pattern of one row.
ApplyPattern(info, groups) ==
    IF groups = NoMatch THEN info
    ELSE IF /\ Processor(groups)[1] # << >>
            /\ Processor(groups)[2] # << >>
            /\ Len(Processor(groups)[1]) < 50
            /\ Len(Processor(groups)[2]) < 200
         THEN SetItem(info, Processor(groups)[1], Processor(groups)[2])
         ELSE info

\* Lines 377-392 for one row.
ApplyRow(info, row) ==
    IF row.size < 10 \/ row.size > 1000 THEN info
    ELSE ApplyPattern(ApplyPattern(info, row.groups[1]), row.groups[2])

\* Lines 375-392: every row the row selectors select, in order.
RECURSIVE ApplyRows(_, _, _)
ApplyRows(info, rows, k) ==
    IF k > Len(rows) THEN info ELSE ApplyRows(ApplyRow(info, rows[k]), rows, k + 1)

GenericLabels == { << "v", "i", "e", "w" >>, << "d", "e", "t", "a", "i", "l", "s" >>, << "m", "o", "r", "e" >> }

\* Lines 339-348: the non-trivial candidate texts, duplicates removed, in order.
RECURSIVE NameCandidates(_, _, _)
NameCandidates(texts, k, seen) ==
    IF k > Len(texts) THEN << >>
    ELSE IF /\ Len(texts[k]) > 2
            /\ Lower(texts[k]) \notin GenericLabels
            /\ texts[k] \notin seen
         THEN << texts[k] >> \o NameCandidates(texts, k + 1, seen \cup {texts[k]})
         ELSE NameCandidates(texts, k + 1, seen)

\* [n for n in name_candidates if 3 <= len(n) <= 100]
Filtered(names) == SelectSeq(names, LAMBDA n : 3 <= Len(n) /\ Len(n) <= 100)

\* max(filtered, key=len): the first of the longest.
Longest(names) == names[CHOOSE k \in 1..Len(names) : \A j \in 1..Len(names) : Len(names[j]) < Len(names[k]) \/ (Len(names[j]) = Len(names[k]) /\ k <= j)]

UrlPrefixes == { << "h", "t", "t", "p" >>, << "w", "w", "w" >>, << "m", "a", "i", "l", "t", "o", ":" >> }

\* Lines 396-400: the first linked text that is not URL-like (0: none).
RECURSIVE FirstLink(_, _)
FirstLink(links, k) ==
    IF k > Len(links) THEN 0
    ELSE IF Len(links[k]) > 2 /\ ~ \E p \in UrlPrefixes : StartsWithAt(Lower(links[k]), 1, p) THEN k
    ELSE FirstLink(links, k + 1)

\* re.sub(r'<[^>]+>', '', s)
RECURSIVE RemoveTags(_, _)
RemoveTags(s, p) ==
    IF p > Len(s) THEN << >>
    ELSE IF s[p] = "<" /\ FindFirst(s, p + 1, {">"}) > p + 1
         THEN RemoveTags(s, FindFirst(s, p + 1, {">"}) + 1)
         ELSE << s[p] >> \o RemoveTags(s, p + 1)

\* A result block: the text of the registry-type element (<< >>: no such
\* element), the texts of the elements the name patterns select, the rows,
\* the texts of its links and the length of its markup.
Block(corp_type, names, rows, links, size) == [corp_type |-> corp_type, names |-> names, rows |-> rows, links |-> links, size |-> size]

\* A document: hits[j] is what soup.select(result_selectors[j]) returns.
HtmlDocument(size, hits) == [size |-> size, hits |-> hits]

\* Lines 305-309: the first selector that selects something (0: none).
RECURSIVE FirstSelector(_, _)
FirstSelector(hits, j) ==
    IF j > Len(hits) THEN 0
    ELSE IF hits[j] # << >> THEN j
    ELSE FirstSelector(hits, j + 1)

\* Line 419: the map returned by the handler of the outer try.
ErrorInfo(e, html_content) == SetItem(SetItem(EmptyInfo, ERROR_KEY, e), RAW_HTML_KEY, Truncate(Markup(html_content.size), 1000) \o Ellipsis)

\* Line 313: what is returned when no selector selects a block.
NoBlockReturnsError(html_content) == ErrorInfo(<< "n", "o", " ", "r", "e", "s", "u", "l", "t", " ", "b", "l", "o", "c", "k" >>, html_content)
NoBlockReturn(html_content) == EmptyInfo

\* The statements of the outer try, by the position that runs them next.
TryBody == {"save", "clean", "parse", "select", "corp", "names", "rows", "link", "raw", "cleanup"}

\* Exceptions a statement of the body can raise (the file cannot be
\* written, the markup is nested too deeply for the parser's recursion).
Errors == { << "N", "o", " ", "s", "p", "a", "c", "e", " ", "l", "e", "f", "t", " ", "o", "n", " ", "d", "e", "v", "i", "c", "e" >>, << "m", "a", "x", "i", "m", "u", "m", " ", "r", "e", "c", "u", "r", "s", "i", "o", "n", " ", "d", "e", "p", "t", "h", " ", "e", "x", "c", "e", "e", "d", "e", "d" >> }

result_block == x_block[1]

\* Lines 269-272: the document is written to last_search_results.html.
SaveHtml ==
    /\ x_pc = "save"
    /\ x_pc' = "clean"
    /\ UNCHANGED << x_html, x_info, x_block, x_error, x_ret >>
    /\ UNCHANGED not_extract

\* Lines 277-288: the saved file is cleaned; whatever happens in the inner
\* try (clean_search_results raises, or detailed_info is not empty and the
\* assignment to the still unbound info raises) is caught at line 287.
CleanHtml ==
    /\ x_pc = "clean"
    /\ \E outcome \in {"cleaned", "raised", "detailed"} : x_pc' = "parse"
    /\ UNCHANGED << x_html, x_info, x_block, x_error, x_ret >>
    /\ UNCHANGED not_extract

\* Lines 292-293.
Parse ==
    /\ x_pc = "parse"
    /\ x_info' = EmptyInfo
    /\ x_pc' = "select"
    /\ UNCHANGED << x_html, x_block, x_error, x_ret >>
    /\ UNCHANGED not_extract

\* Lines 305-309, a selector selects a block.
FindBlock ==
    /\ x_pc = "select"
    /\ FirstSelector(x_html.hits, 1) # 0
    /\ x_block' = << x_html.hits[FirstSelector(x_html.hits, 1)][1] >>
    /\ x_pc' = "corp"
    /\ UNCHANGED << x_html, x_info, x_error, x_ret >>
    /\ UNCHANGED not_extract

\* Lines 305-313, no selector selects anything.
NoBlockFound ==
    /\ x_pc = "select"
    /\ FirstSelector(x_html.hits, 1) = 0
    /\ x_ret' = NoBlockReturn(x_html)
    /\ x_pc' = "returned"
    /\ UNCHANGED << x_html, x_info, x_block, x_error >>
    /\ UNCHANGED not_extract

\* Lines 316-320.
CorporationType ==
    /\ x_pc = "corp"
    /\ x_info' = SetItem(x_info, CORPORATION_TYPE, IF result_block.corp_type # << >> THEN result_block.corp_type ELSE NotSpecified)
    /\ x_pc' = "names"
    /\ UNCHANGED << x_html, x_block, x_error, x_ret >>
    /\ UNCHANGED not_extract

\* Lines 323-356.
CompanyName ==
    /\ x_pc = "names"
    /\ x_info' = IF Filtered(NameCandidates(result_block.names, 1, {})) # << >>
                 THEN SetItem(x_info, COMPANY_NAME_KEY, Longest(Filtered(NameCandidates(result_block.names, 1, {}))))
                 ELSE x_info
    /\ x_pc' = "rows"
    /\ UNCHANGED << x_html, x_block, x_error, x_ret >>
    /\ UNCHANGED not_extract

\* Lines 360-392.
LabelValues ==
    /\ x_pc = "rows"
    /\ x_info' = ApplyRows(x_info, result_block.rows, 1)
    /\ x_pc' = "link"
    /\ UNCHANGED << x_html, x_block, x_error, x_ret >>
    /\ UNCHANGED not_extract

\* Lines 395-400.
LinkFallback ==
    /\ x_pc = "link"
    /\ x_info' = IF COMPANY_NAME_KEY \notin DOMAIN x_info /\ FirstLink(result_block.links, 1) # 0
                 THEN SetItem(x_info, COMPANY_NAME_KEY, result_block.links[FirstLink(result_block.links, 1)])
                 ELSE x_info
    /\ x_pc' = "raw"
    /\ UNCHANGED << x_html, x_block, x_error, x_ret >>
    /\ UNCHANGED not_extract

\* Line 403.
RawHtml ==
    /\ x_pc = "raw"
    /\ x_info' = SetItem(x_info, RAW_HTML_KEY, Truncate(Markup(result_block.size), 2000) \o (IF result_block.size > 2000 THEN Ellipsis ELSE << >>))
    /\ x_pc' = "cleanup"
    /\ UNCHANGED << x_html, x_block, x_error, x_ret >>
    /\ UNCHANGED not_extract

\* Lines 406-413.
ExtractReturn ==
    /\ x_pc = "cleanup"
    /\ x_info' = IF COMPANY_NAME_KEY \in DOMAIN x_info
                 THEN SetItem(x_info, COMPANY_NAME_KEY, Strip(RemoveTags(x_info[COMPANY_NAME_KEY], 1), Whitespace))
                 ELSE x_info
    /\ x_ret' = x_info'
    /\ x_pc' = "returned"
    /\ UNCHANGED << x_html, x_block, x_error >>
    /\ UNCHANGED not_extract

\* Lines 415-419: a statement of the body raises e.
ExtractExcept ==
    /\ x_pc \in TryBody
    /\ \E e \in Errors :
        /\ x_error' = e
        /\ x_ret' = ErrorInfo(e, x_html)
    /\ x_pc' = "returned"
    /\ UNCHANGED << x_html, x_info, x_block >>
    /\ UNCHANGED not_extract

ExtractNext ==
    \/ SaveHtml
    \/ CleanHtml
    \/ Parse
    \/ FindBlock
    \/ NoBlockFound
    \/ CorporationType
    \/ CompanyName
    \/ LabelValues
    \/ LinkFallback
    \/ RawHtml
    \/ ExtractReturn
    \/ ExtractExcept

\* The documents extract_company_info is called with.
LongText == [k \in 1..101 |-> "A"]
LongLabel == [k \in 1..50 |-> "L"]
Label49 == [k \in 1..49 |-> "K"]
Value199 == [k \in 1..199 |-> "v"]
Value200 == [k \in 1..200 |-> "w"]
Contents ==
    { << << "O", "n", "t", "a", "r", "i", "o", " ", "B", "u", "s", "i", "n", "e", "s", "s", " ", "C", "o", "r", "p", "o", "r", "a", "t", "i", "o", "n" >>, << << "V", "i", "e", "w" >>, << "A", "C", "M", "E" >>, << "A", "C", "M", "E", " ", "<", "b", ">", "H", "O", "L", "D", "I", "N", "G", "S", "<", "/", "b", ">" >>, << "A", "C", "M", "E" >>, << "A", "B" >> >>, << >> >>,
      << << >>, << >>, << << "h", "t", "t", "p", ":", "/", "/", "a", "c", "m", "e", ".", "e", "x", "a", "m", "p", "l", "e" >>, << "x" >>, << "A", "c", "m", "e", " ", "H", "o", "l", "d", "i", "n", "g", "s" >> >> >>,
      << << >>, << LongText >>, << << "w", "w", "w", ".", "a", "c", "m", "e", ".", "e", "x", "a", "m", "p", "l", "e" >> >> >>,
      << << >>, << << "D", "e", "t", "a", "i", "l", "s" >> >>, << >> >> }
RowSamples ==
    { Row(40, << << " ", "S", "t", "a", "t", "u", "s" >>, << "A", "c", "t", "i", "v", "e", " " >> >>, NoMatch),
      Row(60, << << "s", "t", "a", "t", "u", "s", " " >>, << "I", "n", "a", "c", "t", "i", "v", "e" >> >>, NoMatch),
      Row(9, << << "T", "y", "p", "e" >>, << "C", "o" >> >>, NoMatch),
      Row(2001, << << "D", "a", "t", "e" >>, << "2", "0", "0", "1" >> >>, NoMatch),
      Row(90, << LongLabel, << "x" >> >>, << << "A", "d", "d", "r", "e", "s", "s" >>, << "1", " ", "M", "a", "i", "n", " ", "S", "t" >> >>),
      Row(30, NoMatch, << << >>, << "o", "r", "p", "h", "a", "n" >> >>),
      Row(300, << Label49, Value199 >>, << << "N", "o", "t", "e", "s" >>, Value200 >>) }
RowLists == UNION { [1..n -> RowSamples] : n \in 0..MaxRows }
RECURSIVE SizeOf(_, _)
SizeOf(rows, k) == IF k > Len(rows) THEN 100 ELSE rows[k].size + SizeOf(rows, k + 1)
Blocks == { Block(c[1], c[2], r, c[3], SizeOf(r, 1)) : c \in Contents, r \in RowLists }
Decoy == Block(<< "D", "e", "c", "o", "y" >>, << << "D", "e", "c", "o", "y" >> >>, << >>, << >>, 100)
Hits(j, block) == [k \in 1..Len(result_selectors) |-> IF k < j THEN << >> ELSE IF k = j THEN << block, Decoy >> ELSE << Decoy >>]
HtmlDocuments ==
    { HtmlDocument(size, [k \in 1..Len(result_selectors) |-> << >>]) : size \in {0, 200, 1200} }
    \cup { HtmlDocument(block.size + 200, Hits(j, block)) : j \in 1..Len(result_selectors), block \in Blocks }

ExtractIdle ==
    /\ x_html = HtmlDocument(0, << >>)
    /\ x_pc = "idle"
    /\ x_info = EmptyInfo
    /\ x_block = << >>
    /\ x_error = << >>
    /\ x_ret = EmptyInfo

ExtractInit ==
    /\ x_html \in HtmlDocuments
    /\ x_pc = "save"
    /\ x_info = EmptyInfo
    /\ x_block = << >>
    /\ x_error = << >>
    /\ x_ret = EmptyInfo

(***************************************************************************)
(* business_lookup.search_ontario_business: the Selenium session.  A page  *)
(* says how the driver's calls end: opening it and waiting for the query   *)
(* box, and for each candidate of the submit step whether the wait for a   *)
(* clickable element times out, or the element is found and click()        *)
(* returns, or is found and click() raises.                                *)
(***************************************************************************)
selenium_search_button_selectors ==
    << "button[type='submit']", "input[type='submit']", "//button[contains(., 'Search') or contains(., 'SEARCH')]", "//input[@value='Search' or @value='SEARCH']", "nodeW20" >>

SeleniumButtons == {"timeout", "click_ok", "click_err"}
SeleniumPages ==
    { [open |-> o, buttons |-> b] :
        o \in {"ok", "get_err", "box_timeout"},
        b \in [1..Len(selenium_search_button_selectors) -> SeleniumButtons] }

\* driver.page_source: the results once a click has submitted the form, the
\* search form otherwise.
SearchFormPage == "<search form>"
ResultsPage == "<results>"
page_source == IF se_clicks # {} THEN ResultsPage ELSE SearchFormPage

SeleniumIdle ==
    /\ se_page = [open |-> "ok", buttons |-> << >>]
    /\ se_pc = "idle"
    /\ se_j = 0
    /\ se_button = 0
    /\ se_clicks = {}
    /\ se_waited = FALSE
    /\ se_ret = ""

SeleniumInit ==
    /\ se_page \in SeleniumPages
    /\ se_pc = "open"
    /\ se_j = 1
    /\ se_button = 0
    /\ se_clicks = {}
    /\ se_waited = FALSE
    /\ se_ret = ""

\* Lines 36-66: the page is opened and the query typed into the box.  An
\* exception of get_page is caught at line 142, the timeout of the wait for
\* the box at line 127; both return "".
SeleniumOpen ==
    /\ se_pc = "open"
    /\ IF se_page.open = "ok" THEN se_pc' = "submit" /\ se_ret' = se_ret
       ELSE se_pc' = "returned" /\ se_ret' = ""
    /\ UNCHANGED << se_page, se_j, se_button, se_clicks, se_waited >>
    /\ UNCHANGED not_selenium

\* Lines 77-84: one candidate.  wait.until raises before search_button is
\* assigned; click() raises after it was.
TrySelector ==
    /\ se_pc = "submit"
    /\ se_j <= Len(selenium_search_button_selectors)
    /\ se_button' = IF se_page.buttons[se_j] = "timeout" THEN se_button ELSE se_j
    /\ se_clicks' = IF se_page.buttons[se_j] = "click_ok" THEN se_clicks \cup {se_j} ELSE se_clicks
    /\ IF se_page.buttons[se_j] = "click_ok" THEN se_pc' = "check" /\ se_j' = se_j
       ELSE IF se_j = Len(selenium_search_button_selectors) THEN se_pc' = "check" /\ se_j' = se_j
       ELSE se_pc' = "submit" /\ se_j' = se_j + 1
    /\ UNCHANGED << se_page, se_waited, se_ret >>
    /\ UNCHANGED not_selenium

\* Lines 86-87: search_button is None; the exception is caught at line 142.
NoSearchButton ==
    /\ se_pc = "check"
    /\ se_button = 0
    /\ se_ret' = ""
    /\ se_pc' = "returned"
    /\ UNCHANGED << se_page, se_j, se_button, se_clicks, se_waited >>
    /\ UNCHANGED not_selenium

\* Lines 89-124: search_button is set; the results are waited for and the
\* page source is returned.
ReturnPageSource ==
    /\ se_pc = "check"
    /\ se_button # 0
    /\ se_waited' = TRUE
    /\ se_ret' = page_source
    /\ se_pc' = "returned"
    /\ UNCHANGED << se_page, se_j, se_button, se_clicks >>
    /\ UNCHANGED not_selenium

SeleniumNext ==
    \/ SeleniumOpen
    \/ TrySelector
    \/ NoSearchButton
    \/ ReturnPageSource

(***************************************************************************)
(* PlaywrightScraper.search_multiple_concurrent: the names are searched    *)
(* one after the other by the scraper itself, on the page that start()     *)
(* made.                                                                   *)
(***************************************************************************)
\* The page start() creates, in the one context of the scraper.
ScraperPage == 1

\* await asyncio.sleep(0.5), in tenths of a second.
SEARCH_PAUSE == 5

MultiIdle ==
    /\ mc_names = << >>
    /\ mc_pc = "off"
    /\ mc_page = 0
    /\ mc_results = << >>
    /\ mc_served = << >>
    /\ mc_slept = 0

MultiInit ==
    /\ \E n \in 0..MaxQueries : mc_names = SubSeq(test_businesses, 1, n)
    /\ mc_pc = "loop"
    /\ mc_page = ScraperPage
    /\ mc_results = << >>
    /\ mc_served = << >>
    /\ mc_slept = 0

\* Lines 369-374: one iteration, on whatever the page shows this time.
SearchNext ==
    /\ mc_pc = "loop"
    /\ Len(mc_results) < Len(mc_names)
    /\ \E page \in BatchPages :
         LET r == search_business_optimized(mc_names[Len(mc_results) + 1], page) IN
         IF r.raised
         THEN mc_pc' = "raised" /\ UNCHANGED << mc_results, mc_slept >>
         ELSE /\ mc_results' = Append(mc_results, r.value)
              /\ mc_slept' = mc_slept + SEARCH_PAUSE
              /\ mc_pc' = "loop"
    /\ mc_served' = Append(mc_served, mc_page)
    /\ UNCHANGED << mc_names, mc_page >>
    /\ UNCHANGED not_multi

\* Line 376.
MultiReturn ==
    /\ mc_pc = "loop"
    /\ Len(mc_results) = Len(mc_names)
    /\ mc_pc' = "returned"
    /\ UNCHANGED << mc_names, mc_page, mc_results, mc_served, mc_slept >>
    /\ UNCHANGED not_multi

MultiNext ==
    \/ SearchNext
    \/ MultiReturn

(***************************************************************************)
(* is_company_match on pairs of different names.                           *)
(***************************************************************************)
UnionCoop == << "U", "n", "i", "o", "n", " ", "C", "o", "-", "o", "p" >>
UnionCooperativeAssociation == << "U", "n", "i", "o", "n", " ", "C", "o", "o", "p", "e", "r", "a", "t", "i", "v", "e", " ", "A", "s", "s", "o", "c", "i", "a", "t", "i", "o", "n" >>
FarmersCoop == << "F", "a", "r", "m", "e", "r", "s", " ", "C", "o", "o", "p" >>
ZedMotors == << "Z", "e", "d", " ", "M", "o", "t", "o", "r", "s" >>
PairNames ==
    { UnionCoop,
      UnionCooperativeAssociation,
      << "M", "T", "D", " ", "P", "r", "o", "d", "u", "c", "t", "s", " ", "L", "i", "m", "i", "t", "e", "d" >>,
      << "M", "T", "D" >>,
      << "B", "l", "u", "e", " ", "A", "c", "m", "e", " ", "F", "o", "o", "d", "s" >>,
      << "R", "e", "d", " ", "A", "c", "m", "e", " ", "M", "o", "t", "o", "r", "s" >>,
      << "N", "o", "r", "t", "h", "l", "a", "n", "d" >>,
      << "N", "o", "r", "t", "h", " ", "S", "t", "a", "r" >>,
      FarmersCoop,
      ZedMotors,
      << "C", "o", "-", "o", "p", "e", "r", "a", "t", "o", "r", "s" >>,
      << "I", "n", "c", "." >> }

PairIdle ==
    /\ p_search = << >>
    /\ p_company = << >>
    /\ p_pc = "off"
    /\ p_ret = << >>

PairInit ==
    /\ p_search \in PairNames
    /\ p_company \in PairNames
    /\ p_pc = "ready"
    /\ p_ret = << >>

\* is_company_match(search_name, {'COMPANY NAME': company_name})
Decide ==
    /\ p_pc = "ready"
    /\ p_ret' = is_company_match(p_search, [x \in {COMPANY_NAME} |-> p_company])
    /\ p_pc' = "decided"
    /\ UNCHANGED << p_search, p_company >>
    /\ UNCHANGED not_pair

PairNext == Decide

(***************************************************************************)
(* _smart_wait_for_results, one action for each way a poll can go.  What   *)
(* the page shows and how long its queries take are chosen anew at every   *)
(* poll.                                                                   *)
(***************************************************************************)
NoPoll == [o |-> "none", started |-> 0, at |-> 0]
Latencies == 0..MaxLatency

\* while time.time() - start_time < max_wait:
WithinMaxWait(el) == el < MAX_WAIT

\* Mutant: the minimum wait counts as over from the start.
MinimumWaitedAlways(t) == TRUE

\* if time.time() - start_time > 2.0:
MinimumWaited(t) == t > MIN_WAIT

\* Mutant: what a page query raises leaves the wait.
PollExceptPropagates(t) == "raised"

\* except Exception: return once the minimum wait is over, else sleep and
\* poll again.
PollExcept(t) == IF MinimumWaited(t) THEN "returned" ELSE "poll"

WaitIdle ==
    /\ w_pc = "off"
    /\ w_el = 0
    /\ w_n = 0
    /\ w_last = NoPoll
    /\ w_why = ""

\* start_time = time.time()
WaitInit ==
    /\ w_pc = "poll"
    /\ w_el = 0
    /\ w_n = 0
    /\ w_last = NoPoll
    /\ w_why = ""

Polling == w_pc = "poll" /\ WithinMaxWait(w_el)

\* The loop test fails: the function ends.
MaxWaitElapsed ==
    /\ w_pc = "poll"
    /\ ~WithinMaxWait(w_el)
    /\ w_pc' = "returned"
    /\ w_why' = "max_wait"
    /\ UNCHANGED << w_el, w_n, w_last >>
    /\ UNCHANGED not_wait

\* if results: return
SeesResults ==
    /\ Polling
    /\ \E lat \in Latencies :
        /\ w_last' = [o |-> "results", started |-> w_el, at |-> w_el + lat]
        /\ w_el' = w_el + lat
    /\ w_n' = w_n + 1
    /\ w_pc' = "returned"
    /\ w_why' = "results"
    /\ UNCHANGED not_wait

\* if no_results: return
SeesNoResults ==
    /\ Polling
    /\ \E lat \in Latencies :
        /\ w_last' = [o |-> "no_results", started |-> w_el, at |-> w_el + 2 * lat]
        /\ w_el' = w_el + 2 * lat
    /\ w_n' = w_n + 1
    /\ w_pc' = "returned"
    /\ w_why' = "no_results"
    /\ UNCHANGED not_wait

\* Neither is there and the minimum wait is not over: sleep and poll again.
TooEarly ==
    /\ Polling
    /\ \E lat \in Latencies :
        /\ ~MinimumWaited(w_el + 2 * lat)
        /\ w_last' = [o |-> "early", started |-> w_el, at |-> w_el + 2 * lat]
        /\ w_el' = w_el + 2 * lat + POLL_SLEEP
    /\ w_n' = w_n + 1
    /\ UNCHANGED << w_pc, w_why >>
    /\ UNCHANGED not_wait

\* Neither is there, the minimum wait is over and a loading indicator is
\* on the page: sleep and poll again.
StillLoading ==
    /\ Polling
    /\ \E lat \in Latencies :
        /\ MinimumWaited(w_el + 2 * lat)
        /\ w_last' = [o |-> "loading", started |-> w_el, at |-> w_el + 2 * lat]
        /\ w_el' = w_el + 3 * lat + POLL_SLEEP
    /\ w_n' = w_n + 1
    /\ UNCHANGED << w_pc, w_why >>
    /\ UNCHANGED not_wait

\* Neither is there, the minimum wait is over and no loading indicator is
\* on the page: if not loading_indicators: return
NothingLoading ==
    /\ Polling
    /\ \E lat \in Latencies :
        /\ MinimumWaited(w_el + 2 * lat)
        /\ w_last' = [o |-> "quiet", started |-> w_el, at |-> w_el + 2 * lat]
        /\ w_el' = w_el + 3 * lat
    /\ w_n' = w_n + 1
    /\ w_pc' = "returned"
    /\ w_why' = "quiet"
    /\ UNCHANGED not_wait

\* The q-th page query of the poll raises (the third one is only made once
\* the minimum wait is over).
QueryRaises ==
    /\ Polling
    /\ \E lat \in Latencies, q \in 1..3 :
        /\ q = 3 => MinimumWaited(w_el + 2 * lat)
        /\ w_last' = [o |-> "error", started |-> w_el, at |-> w_el + q * lat]
        /\ w_pc' = PollExcept(w_el + q * lat)
        /\ w_el' = IF PollExcept(w_el + q * lat) = "poll" THEN w_el + q * lat + POLL_SLEEP ELSE w_el + q * lat
        /\ w_why' = IF PollExcept(w_el + q * lat) = "poll" THEN w_why ELSE "error"
    /\ w_n' = w_n + 1
    /\ UNCHANGED not_wait

WaitNext ==
    \/ MaxWaitElapsed
    \/ SeesResults
    \/ SeesNoResults
    \/ TooEarly
    \/ StillLoading
    \/ NothingLoading
    \/ QueryRaises

vars == << orch_vars, search_vars, match_vars, owner_vars, extract_vars, selenium_vars, multi_vars, pair_vars, wait_vars >>

Init == OrchInit /\ SearchIdle /\ MatchIdle /\ OwnersIdle /\ ExtractIdle /\ SeleniumIdle /\ MultiIdle /\ PairIdle /\ WaitIdle
Next == OrchNext
Spec == Init /\ [][Next]_vars

InitSearch == SearchInit /\ OrchIdle /\ MatchIdle /\ OwnersIdle /\ ExtractIdle /\ SeleniumIdle /\ MultiIdle /\ PairIdle /\ WaitIdle
NextSearch == SearchCall
SpecSearch == InitSearch /\ [][NextSearch]_vars

InitMatch == MatchInit /\ OrchIdle /\ SearchIdle /\ OwnersIdle /\ ExtractIdle /\ SeleniumIdle /\ MultiIdle /\ PairIdle /\ WaitIdle
NextMatch == MatchNext
SpecMatch == InitMatch /\ [][NextMatch]_vars

InitOwners == OwnersInit /\ OrchIdle /\ SearchIdle /\ MatchIdle /\ ExtractIdle /\ SeleniumIdle /\ MultiIdle /\ PairIdle /\ WaitIdle
NextOwners == OwnersNext
SpecOwners == InitOwners /\ [][NextOwners]_vars

InitExtract == ExtractInit /\ OrchIdle /\ SearchIdle /\ MatchIdle /\ OwnersIdle /\ SeleniumIdle /\ MultiIdle /\ PairIdle /\ WaitIdle
NextExtract == ExtractNext
SpecExtract == InitExtract /\ [][NextExtract]_vars

InitSelenium == SeleniumInit /\ OrchIdle /\ SearchIdle /\ MatchIdle /\ OwnersIdle /\ ExtractIdle /\ MultiIdle /\ PairIdle /\ WaitIdle
NextSelenium == SeleniumNext
SpecSelenium == InitSelenium /\ [][NextSelenium]_vars

InitMulti == MultiInit /\ OrchIdle /\ SearchIdle /\ MatchIdle /\ OwnersIdle /\ ExtractIdle /\ SeleniumIdle /\ PairIdle /\ WaitIdle
NextMulti == MultiNext
SpecMulti == InitMulti /\ [][NextMulti]_vars

InitPair == PairInit /\ OrchIdle /\ SearchIdle /\ MatchIdle /\ OwnersIdle /\ ExtractIdle /\ SeleniumIdle /\ MultiIdle /\ WaitIdle
NextPair == PairNext
SpecPair == InitPair /\ [][NextPair]_vars

InitWait == WaitInit /\ OrchIdle /\ SearchIdle /\ MatchIdle /\ OwnersIdle /\ ExtractIdle /\ SeleniumIdle /\ MultiIdle /\ PairIdle
NextWait == WaitNext
SpecWait == InitWait /\ [][NextWait]_vars

\* The event loop resumes a coroutine whose awaited query or sleep is over.
SpecWaitFair == SpecWait /\ WF_vars(NextWait)

(***************************************************************************)
(* Claims about the orchestrator (Spec).                                   *)
(***************************************************************************)
NumNames == Len(business_names)

\* C1: when process_businesses has returned, all_results holds exactly one
\* outcome per name, and the k-th outcome is that of the k-th name, whatever
\* the batch size, the concurrency and the order in which the tasks finished.
C1_OrderPreserved ==
    opc = "returned" =>
        /\ Len(all_results) = NumNames
        /\ \A k \in 1..NumNames : all_results[k].business_name = business_names[k]

\* A run of several batches has returned in which some task finished before
\* an earlier task of its batch.
C1_Witness ==
    /\ opc = "returned"
    /\ out_of_order
    /\ batch_size > 1
    /\ NumNames > batch_size

\* C2: never more than max_concurrent tasks are between acquiring and
\* releasing the semaphore.
C2_ConcurrencyBound == Cardinality(Active) <= max_concurrent

\* The gate is full, a task of an oversized batch waits at it, and a session
\* has already failed.
C2_Witness ==
    /\ Cardinality(Active) = max_concurrent
    /\ batch_size > max_concurrent
    /\ \E k \in Tasks : spc[k] = "wait"
    /\ faulted # {}

\* C3: when an exception was raised in every session of the run,
\* process_businesses still returns (it never raises), with one failed
\* outcome per name, in the order of the names.
C3_AllFailedInOrder ==
    /\ opc # "raised"
    /\ (opc = "returned" /\ faulted = 1..NumNames) =>
          /\ Len(all_results) = NumNames
          /\ \A k \in 1..NumNames :
                /\ ~all_results[k].success
                /\ all_results[k].business_name = business_names[k]

\* A run of several batches has returned after every session raised, at
\* different steps.
C3_Witness ==
    /\ opc = "returned"
    /\ NumNames > batch_size
    /\ faulted = 1..NumNames
    /\ \E a, b \in 1..NumNames : all_results[a].error_message # all_results[b].error_message

BatchOf(k) == (k - 1) \div batch_size

\* C4: a task of a later batch exists only when every task of every earlier
\* batch is done.
C4_BatchesDoNotOverlap ==
    \A a, b \in 1..NumNames :
        (BatchOf(a) < BatchOf(b) /\ spc[b] # "idle") => spc[a] = "done"

\* A session of a second batch is running.
C4_Witness ==
    \E a, b \in 1..NumNames : BatchOf(a) < BatchOf(b) /\ b \in Active /\ a \in faulted

(***************************************************************************)
(* Claims about one retrieval session (SpecSearch).                        *)
(***************************************************************************)
\* A step of the session fails on the page.
StepFails(page) ==
    \/ page.goto = "err"
    \/ page.input = "err"
    \/ page.fill = "err"
    \/ \A j \in Selectors : page.buttons[j] # "click_ok"
    \/ page.load = "err"
    \/ page.content = "err"

\* C5: search_business_optimized never lets an exception reach its caller;
\* when a step fails it returns success = false, an empty document, the
\* description of the error and the time elapsed when the error was raised.
C5_SessionNeverRaises ==
    sq_pc = "done" =>
        /\ ~sq_out.raised
        /\ StepFails(sq_page) =>
              /\ ~sq_out.value.success
              /\ sq_out.value.html_content = ""
              /\ sq_out.value.error_message = SearchTry(sq_name, sq_page).error
              /\ sq_out.value.error_message # ""
              /\ sq_out.value.search_time = SearchTry(sq_name, sq_page).t
              /\ sq_out.value.business_name = sq_name

\* The session failed at its last step, reading the document, after time
\* had passed.
C5_Witness ==
    /\ sq_pc = "done"
    /\ sq_page.content = "err"
    /\ sq_out.value.error_message = "Error: page.content"
    /\ sq_out.value.search_time > 0

(***************************************************************************)
(* Claims about the owner pipeline (SpecOwners).                           *)
(***************************************************************************)
\* C6: in process_owners_concurrent an error raised while one owner's
\* result is handled never leaves the function: the function returns, and
\* by then the report holds the section of every owner, in order.
C6_RunNeverAborted ==
    /\ ow_pc # "raised"
    /\ ow_pc = "returned" => details = owners_list

(***************************************************************************)
(* Claims about the name matcher (SpecMatch).                              *)
(***************************************************************************)
\* The name n' handed to the matcher is a casing or legal-suffix variant of
\* the searched name.
SelfMatch ==
    /\ m_pc \in {"matched", "raised"}
    /\ m_search # << >>
    /\ COMPANY_NAME \in DOMAIN m_info

\* C7: for every non-empty name n and every casing or legal-suffix variant
\* n' of n, names made only of legal-suffix words included,
\* is_company_match(n, {COMPANY NAME: n'}) returns is_match = true with a
\* confidence of at least 0.85.
C7_SelfMatchIsConfident ==
    SelfMatch => (Len(m_ret) = 3 /\ m_ret[1] /\ m_ret[3] >= 85)

\* C8: normalize_company_name is idempotent: normalizing the normalized
\* name gives the normalized name again.
C8_NormalizeIdempotent ==
    m_pc = "renormalized" => m_norm = normalize_company_name(m_search)

C10_ThreePartResult ==
    /\ m_pc # "raised"
    /\ (m_pc = "matched" /\ COMPANY_NAME \notin DOMAIN m_info) =>
            m_ret = << FALSE, << >>, 0 >>


(***************************************************************************)
(* Claims about the steps of a session (SpecSearch).                       *)
(***************************************************************************)
SessionDone == sq_pc = "done"
SessionLog == SearchTry(sq_name, sq_page).log
SessionOutcome == sq_out.value
AllSteps == << "goto", "input", "fill", "click", "load", "wait", "content" >>
ClickedOne == \E j \in Selectors : sq_page.buttons[j] = "click_ok"

\* C21: a session that returns success = true has navigated, found the
\* query box, filled it, clicked one submit control with success, waited
\* for the load and the results and then read the document, in this order
\* and each once; a session that ends failed has not read the document.
C21_SuccessAfterAllSteps ==
    SessionDone =>
        /\ SessionOutcome.success =>
            /\ SessionLog = AllSteps
            /\ sq_page.goto = "ok" /\ sq_page.input = "ok" /\ sq_page.fill = "ok"
            /\ ClickedOne
            /\ sq_page.load = "ok"
            /\ sq_page.content # "err"
            /\ SessionOutcome.html_content = sq_page.content
        /\ ~SessionOutcome.success =>
            /\ \A k \in DOMAIN SessionLog : SessionLog[k] # "content"
            /\ SessionOutcome.html_content = ""
            /\ \E n \in 0..Len(AllSteps) : SessionLog = SubSeq(AllSteps, 1, n)

C21_Witness ==
    /\ SessionDone
    /\ SessionOutcome.success
    /\ sq_page.buttons[1] = "click_err"
    /\ sq_page.cookie = "err"
    /\ SessionLog = AllSteps

SessionWait == _smart_wait_for_results(sq_page.wait, sq_page.lat)
ReachedWait == Len(SessionLog) >= 5
WaitSawNothing == SessionWait.why \notin {"results", "no_results"}

\* C23: a results wait that ends without having seen a results container or
\* a "no results" text does not fail the session: the wait returns, the
\* document is read as it is and, when that read succeeds, the session
\* returns success = true with that document.
C23_WaitTimeoutIsNotFailure ==
    (SessionDone /\ ReachedWait /\ WaitSawNothing) =>
        /\ SessionWait.why \in {"max_wait", "quiet", "error"}
        /\ Len(SessionLog) >= 6
        /\ sq_page.content # "err" =>
            /\ SessionOutcome.success
            /\ SessionOutcome.html_content = sq_page.content
            /\ SessionOutcome.error_message = ""

C23_Witness ==
    /\ SessionDone
    /\ ReachedWait
    /\ SessionWait.why = "max_wait"
    /\ SessionWait.t >= MAX_WAIT
    /\ SessionOutcome.success
    /\ SessionOutcome.html_content = sq_page.content

(***************************************************************************)
(* Claims about the results wait (SpecWait, SpecWaitFair).                 *)
(***************************************************************************)
WaitReturned == w_pc = "returned"
NeverAppeared == w_last.o \notin {"results", "no_results"}

\* C22 as stated: when neither a results container nor a "no results" text
\* ever appears, the wait returns only once max_wait has elapsed.
C22_ReturnsOnlyAtMaxWait ==
    (WaitReturned /\ NeverAppeared) => w_el >= MAX_WAIT

\* C22, amended: when neither a results container nor a "no results" text
\* ever appears, the wait polls again as long as the minimum wait is not
\* over or a loading indicator is on the page, and it returns at the loop
\* test once max_wait has elapsed, or earlier at the first poll past the
\* minimum wait that finds no loading indicator or whose page query raises.
C22_ReturnsAtMaxWaitOrQuietAfterMinimum ==
    /\ (WaitReturned /\ NeverAppeared) =>
        \/ w_why = "max_wait" /\ w_el >= MAX_WAIT
        \/ w_why \in {"quiet", "error"} /\ w_last.at > MIN_WAIT /\ w_last.started < MAX_WAIT
    /\ (w_pc = "poll" /\ w_n > 0) =>
        \/ w_last.o \in {"early", "error"} /\ w_last.at <= MIN_WAIT
        \/ w_last.o = "loading" /\ w_last.at > MIN_WAIT

C22_Witness ==
    /\ WaitReturned
    /\ w_why = "quiet"
    /\ w_el > MIN_WAIT
    /\ w_el < MAX_WAIT
    /\ w_n > 1

WaitSafe ==
    /\ w_pc \in {"poll", "returned"}
    /\ w_n > 0 => w_last.started < MAX_WAIT
    /\ (w_n > 0 /\ w_last.o \in {"results", "no_results"}) => (WaitReturned /\ w_why = w_last.o)
    /\ w_n * POLL_SLEEP <= MAX_WAIT + POLL_SLEEP

\* C24: the wait never raises, whatever the page queries return or raise at
\* each poll; no poll starts once max_wait has elapsed; a poll that sees a
\* results container or a "no results" text is the last one; and every
\* call returns.
C24_WaitTerminatesWithoutRaising == []WaitSafe /\ <>WaitReturned

C24_Witness ==
    /\ WaitReturned
    /\ w_why = "max_wait"
    /\ w_n * POLL_SLEEP >= MAX_WAIT

(***************************************************************************)
(* Claims about the sessions of the orchestrator (Spec).                   *)
(***************************************************************************)
InSession(k) == spc[k] \in {"new_page", "search", "close"}

C16_PauseBetweenBatches ==
    /\ slept = COOL_DOWN * (i \div batch_size)
    /\ \A k \in Tasks : spc[k] # "idle" => k <= i + batch_size
    /\ opc = "pause" =>
        /\ i + batch_size < Len(business_names)
        /\ \A k \in Tasks : k <= i + batch_size => spc[k] = "done"
    /\ (opc = "returned" /\ business_names # << >>) =>
        slept = COOL_DOWN * ((Len(business_names) - 1) \div batch_size)

C16_Witness ==
    /\ opc = "returned"
    /\ Len(business_names) = 3
    /\ batch_size = 1
    /\ slept = 2 * COOL_DOWN

Released(k) == spc[k] = "done"

\* C28: a session that has released its admission slot has closed the
\* context it created, on every path, so that no context of the run is
\* open when process_businesses returns.
C28_ContextClosedBeforeRelease ==
    /\ \A k \in Tasks : Released(k) => context[k] \notin open_contexts
    /\ opc = "returned" => open_contexts = {}

\* C29: the free permits and the active sessions always add up to
\* max_concurrent, and all permits are free when process_businesses
\* returns, whatever steps of the sessions failed.
C29_NoPermitLeaks ==
    /\ semaphore >= 0
    /\ semaphore + Cardinality(Active) = max_concurrent
    /\ opc = "returned" => semaphore = max_concurrent

C29_Witness ==
    /\ opc = "returned"
    /\ semaphore = max_concurrent
    /\ Len(business_names) > max_concurrent
    /\ Cardinality(faulted) >= 2
    /\ \E k \in faulted : context[k] \in open_contexts
    /\ \E k \in faulted : context[k] = 0

Outcomes ==
    {all_results[j] : j \in DOMAIN all_results}
    \cup {task[k].value : k \in {a \in Tasks : spc[a] = "done"}}
    \cup {result[k] : k \in {a \in Tasks : spc[a] = "close"}}

WellFormed(r) ==
    /\ r.success => (r.error_message = "" /\ r.response_size = Len(r.html_content))
    /\ ~r.success => (r.html_content = "" /\ r.response_size = 0)

\* C30: every outcome of a session and of the orchestrator is well formed:
\* a success has no error message and a response_size equal to the length
\* of its document; a failure has no document and response_size 0.
C30_OutcomesAreWellFormed == \A r \in Outcomes : WellFormed(r)

C30_Witness ==
    /\ opc = "returned"
    /\ \E r \in Outcomes : r.success /\ r.response_size > 0
    /\ \E r \in Outcomes : ~r.success /\ r.error_message = "Could not find or click the search button"
    /\ \E r \in Outcomes : ~r.success /\ r.error_message = "Error: context.new_page"

(***************************************************************************)
(* Claims about search_multiple_concurrent (SpecMulti).                    *)
(***************************************************************************)
\* C20: a page, with its browsing context, serves one query: no two queries
\* of a run were run on the same page.
C20_OneQueryPerPage ==
    \A a \in DOMAIN mc_served : \A b \in DOMAIN mc_served : a # b => mc_served[a] # mc_served[b]

(***************************************************************************)
(* Claims about the decision of is_company_match (SpecPair).               *)
(***************************************************************************)
Decided == p_pc = "decided"
SearchVariations == get_name_variations(p_search)
CompanyVariations == get_name_variations(p_company)
SearchTerms == TermsOf(SearchVariations)
CompanyTerms == TermsOf(CompanyVariations)

\* The rules of the decision, each on its own.
DirectRule == (SearchVariations \cap CompanyVariations) # {}
TermRule == (SearchTerms \cap CompanyTerms) # {}
AcronymRule == \E v \in SearchVariations \cap CompanyVariations : Len(v) <= 4 /\ \A k \in 1..Len(v) : IsAlpha(v[k])
SubstringRule == \E st \in SearchTerms : \E ct \in CompanyTerms : Contains(ct, st) \/ Contains(st, ct)
CoopRule == \E t \in SearchTerms \cup CompanyTerms : t \in {coop, co_op}
HasCoopToken(terms) == \E t \in terms : t \in {coop, co_op}

\* The tiers of the rules that fired.
FiredTiers ==
    (IF DirectRule THEN {95} ELSE {}) \cup (IF TermRule THEN {85} ELSE {})
    \cup (IF AcronymRule THEN {80} ELSE {}) \cup (IF SubstringRule \/ CoopRule THEN {70} ELSE {})

C18_CoopNeedsBothSides ==
    (Decided /\ p_ret[1] /\ ~DirectRule /\ ~TermRule /\ ~AcronymRule /\ ~SubstringRule) =>
        (HasCoopToken(SearchTerms) /\ HasCoopToken(CompanyTerms))

\* C19: for "Union Co-op" searched and the candidate "Union Cooperative
\* Association", both normalized names hold the word co-op, the rule that
\* fires is the common term and the result is (True, the candidate, 0.85).
C19_UnionCoopExample ==
    (Decided /\ p_search = UnionCoop /\ p_company = UnionCooperativeAssociation) =>
        /\ co_op \in Range(Split(normalize_company_name(p_search)))
        /\ co_op \in Range(Split(normalize_company_name(p_company)))
        /\ ~DirectRule
        /\ TermRule
        /\ p_ret = << TRUE, p_company, 85 >>

(***************************************************************************)
(* Claims about the submit step (SpecSelenium).                            *)
(***************************************************************************)
FirstClickable(buttons) == {j \in DOMAIN buttons : buttons[j] = "click_ok" /\ \A k \in 1..(j - 1) : buttons[k] # "click_ok"}

\* C14: the submit step tries the candidates in their listed order and
\* accepts the first one that is found and whose click succeeds; when no
\* candidate was clicked successfully the session has ended failed, with an
\* empty document, without waiting for results or returning a page.
C14_NoClickEndsFailed ==
    (se_pc = "returned" /\ se_page.open = "ok") =>
        /\ se_clicks = FirstClickable(se_page.buttons)
        /\ se_clicks = {} => (se_ret = "" /\ ~se_waited)

(***************************************************************************)
(* Claims about the results of process_owners_concurrent (SpecOwners).     *)
(***************************************************************************)
NoResultsEntry(o) == results[o].company_info.STATUS = "No Results Found"

\* C27: a query whose retrieved page says that the registry found nothing
\* is never recorded as a match: its entry in results, if there is one, has
\* match = false and confidence 0.
C27_NoResultsIsNeverAMatch ==
    \A o \in DOMAIN results :
        NoResultsEntry(o) => (~results[o].match /\ results[o].confidence_score = 0)

(***************************************************************************)
(* Claims about extract_company_info_from_html (SpecOwners).               *)
(***************************************************************************)
\* C13: whatever path extract_company_info_from_html takes for the document
\* of a successful search (empty document, empty cleaned content, no-results
\* page, anchor hit, span hit, nothing found, internal error), what it
\* returns has exactly two elements, so that the two-value unpacking of
\* process_owners_concurrent succeeds.
C13_ReturnsPairOnEveryPath ==
    (AtResult /\ result_of_owner.success) => Items(extracted) = 2

(***************************************************************************)
(* Claims about extract_company_info (SpecExtract).                        *)
(***************************************************************************)
NoSelectorMatches == FirstSelector(x_html.hits, 1) = 0

C12_ErrorGivesPartialOrEmptyMap ==
    (x_pc = "returned" /\ x_error # << >>) => x_ret \in {x_info, EmptyInfo}

AfterRows == x_pc = "link"
RowVisits == { << k, g >> : k \in 1..Len(result_block.rows), g \in 1..2 }
Visited(v) == result_block.rows[v[1]].groups[v[2]]
InSizeRange(row) == ~(row.size < 10 \/ row.size > 1000)
Matched(v) == InSizeRange(result_block.rows[v[1]]) /\ Visited(v) # NoMatch
Label(v) == Processor(Visited(v))[1]
Value(v) == Processor(Visited(v))[2]
Before(u, v) == u[1] < v[1] \/ (u[1] = v[1] /\ u[2] < v[2])
Accepted(v) == Matched(v) /\ ApplyPattern(EmptyInfo, Visited(v)) # EmptyInfo

\* C25: after the row loop each label holds the value of its first match in
\* row-selector order; a later row or pattern that yields the same label
\* does not change it.
C25_FirstMatchWins ==
    AfterRows =>
        \A u, v \in RowVisits :
            (Accepted(u) /\ Accepted(v) /\ Before(u, v) /\ Label(u) = Label(v)
             /\ x_info[Label(u)] = Value(v))
            => Value(u) = Value(v)

\* C26: a matched pair is rejected exactly when its label or its value is
\* empty, the label is longer than 50 characters or the value is longer
\* than 200; a label of exactly 50 characters and a value of exactly 200
\* are kept.
C26_RejectedOnlyBeyond50And200 ==
    AfterRows =>
        \A v \in RowVisits : Matched(v) =>
            (Label(v) \in DOMAIN x_info <=>
                \E u \in RowVisits :
                    /\ Matched(u) /\ Label(u) = Label(v)
                    /\ Label(u) # << >> /\ Value(u) # << >>
                    /\ Len(Label(u)) <= 50 /\ Len(Value(u)) <= 200)

====
